---- MODULE Spec2Model ----
(***************************************************************************)
(* A model of MockupDB (src/mockupdb/__init__.py): the per-connection      *)
(* worker loop, the autoresponder list, the peekable request queue and the *)
(* test-facing calls receives, got, autoresponds, run and stop.            *)
(*                                                                         *)
(* Time is counted in ticks of one polling interval (0.05 s).  A thread    *)
(* that runs Python code takes no ticks; ticks pass only while the test    *)
(* threads are idle or blocked in a timed wait.                            *)
(***************************************************************************)
EXTENDS Integers, Sequences, FiniteSets, TLC

\* ------------------------------------------------------------------ bounds
MaxReqs == 2
MaxResp == 2
MaxTimeout == 2
MaxVal == 2

\* ------------------------------------------------------- program constants
POLL == 1
OP_UPDATE == 2001
OP_INSERT == 2002
OP_QUERY == 2004
OP_GET_MORE == 2005
OP_DELETE == 2006
OP_KILL_CURSORS == 2007

\* Python's None where an opcode or a request id is expected: the opcodes
\* and the request ids of the messages are positive numbers.
None == 0

Conns == {"c1", "c2"}
Threads == {"t1", "t2"}
Timeouts == {0, MaxTimeout}

\* reply_timeout, in polling intervals: its default is request_timeout's.
ReplyTimeout == MaxTimeout

\* A document is a set of <<key, value>> pairs.
DocPing == {<<"ping", 1>>}
DocFoo == {<<"foo", 1>>}
CommandDocs == {DocPing, DocFoo}

\* The ismaster command in its two spellings.
DocIsmaster == {<<"ismaster", 1>>}
DocIsMaster == {<<"isMaster", 1>>}

\* _PeekableQueue._NO_ITEM, and "no request in hand".
NoItem == [id |-> 0, conn |-> "-", opcode |-> None, docs |-> <<>>, request_id |-> None]

\* A command message on the wire: an OP_QUERY message on a $cmd namespace
\* with one document.  Ids are the client's request ids, handed out in send
\* order; every OP_QUERY message here is a command.
Command(id, c, doc) == [id |-> id, conn |-> c, opcode |-> OP_QUERY, docs |-> <<doc>>]

\* The opcodes mock_server_receive_request can unpack, and one it cannot.
OPCODES == {OP_QUERY, OP_INSERT, OP_UPDATE, OP_DELETE, OP_GET_MORE, OP_KILL_CURSORS}
BadOpcode == OP_KILL_CURSORS + 1

\* A message of the given opcode on the wire.  OP_GET_MORE and
\* OP_KILL_CURSORS messages carry no documents.
Message(id, c, opcode, doc) ==
    [id |-> id, conn |-> c, opcode |-> opcode,
     docs |-> IF opcode \in {OP_GET_MORE, OP_KILL_CURSORS} THEN <<>> ELSE <<doc>>]

\* The opcode attribute of the class a message is unpacked to: OpQuery and
\* the legacy writes set it, OpGetMore and OpKillCursors inherit Request's
\* None.
ClassOpcode(opcode) ==
    IF opcode \in {OP_GET_MORE, OP_KILL_CURSORS} THEN None ELSE opcode

\* OPCODES[opcode].unpack(msg_bytes, client, server, request_id): the request
\* keeps the client socket and the header's request id, except that
\* OpKillCursors.unpack drops the request id.  The field id is the message's
\* identity, which the properties use.
Unpack(msg) ==
    [id |-> msg.id, conn |-> msg.conn, opcode |-> ClassOpcode(msg.opcode),
     docs |-> msg.docs,
     request_id |-> IF msg.opcode = OP_KILL_CURSORS THEN None ELSE msg.id]

\* make_prototype_request: Request() matches any opcode and has no documents;
\* Request('ping') has the one document {'ping': 1}.
ProtoAny == [opcode |-> None, docs |-> <<>>]
ProtoPing == [opcode |-> None, docs |-> <<DocPing>>]
ProtoIsmaster == [opcode |-> None, docs |-> <<DocIsmaster>>]

\* Reply specs: reply() with no arguments, and reply(ok=0, errmsg='bad').
ReplyNone == <<>>
ReplyBad == <<{<<"ok", 0>>, <<"errmsg", "bad">>}>>

\* reply({'a': 1}, {'b': 1}): two documents.
ReplyTwo == <<{<<"a", 1>>}, {<<"b", 1>>}>>

\* reply({'a': 1}): one document without 'ok'.
ReplyA == <<{<<"a", 1>>}>>

\* MockupDB(auto_ismaster={'maxWireVersion': 3}): the reply spec is the
\* document.
ReplyWire == <<{<<"maxWireVersion", 3>>}>>

\* reply(fn) with a function fn that returns False, or True: a function is
\* no Mapping, and stands here as a value that is no document.
FnFalse == {<<"__call__", 0>>}
FnTrue == {<<"__call__", 1>>}
Callables == {FnFalse, FnTrue}
ReplyFnFalse == <<FnFalse>>
ReplyFnTrue == <<FnTrue>>

\* The responders the test thread registers: autoresponds(Request()) and
\* autoresponds('ping', ok=0, errmsg='bad').
Responders == {[matcher |-> ProtoAny, reply |-> ReplyNone],
               [matcher |-> ProtoPing, reply |-> ReplyBad]}

VARIABLES
    lock,            \* _lock: "free" or the thread / worker holding it
    stopped,         \* _stopped
    acceptThread,    \* _accept_thread: "none", "running", "done"
    listening,       \* _listening_sock: "none", "open", "closed"
    autoresponders,  \* _autoresponders: sequence of [matcher, reply]
    q,               \* the Queue's items
    item,            \* _PeekableQueue._item
    requestsCount,   \* _requests_count
    sock,            \* per connection, the server's socket: "none", "open", "closed"
    wire,            \* per connection, the messages sent and not yet read
    wpc,             \* per connection, the worker's position
    wmsg,            \* per connection, the request the worker has in hand
    pc,              \* per test thread, its position
    op,              \* per test thread, the call it is in
    m,               \* per test thread, the call's matcher prototype
    r,               \* per test thread, autoresponds' reply spec
    tmp,             \* per test thread, the value get / peek has in hand
    via,             \* per test thread, who called get
    blk,             \* per test thread, get's block argument
    wait,            \* per test thread, ticks left of the current timed wait
    remain,          \* per test thread, ticks left until the call's deadline
    result,          \* per test thread, the outcome of its last finished call
    joinSet,         \* per test thread, the threads stop() has to join
    nextId,          \* next client request id
    \* history, read by the properties only
    dispatched,      \* per request id, the worker dispatches of it
    replies,         \* per request id, the replies sent to it
    removed,         \* per request id, the calls that took it off the queue
    regHead,         \* per autoresponder, the id of the request its peek returned
    lateTicks,       \* per test thread, ticks spent in a call since stop
    overlap,         \* two test threads have been inside queue calls at once
    waited,          \* per request id, ticks it has sat in the request queue
    fut              \* go(fn): fn's thread, result, error, and the calls' outcomes

server == <<lock, stopped, acceptThread, listening, autoresponders, q, item,
            requestsCount, sock, wire, wpc, wmsg>>
locals == <<pc, op, m, r, tmp, via, blk, wait, remain, result, joinSet>>
history == <<nextId, dispatched, replies, removed, regHead, lateTicks, overlap,
             waited>>
vars == <<server, locals, history, fut>>

Ids == 1..MaxReqs

\* ------------------------------------------------------------- go(fn)
\* The exceptions fn raises: an exception is its type and its message, and
\* the types here are built from one message, as reraise builds them.
Errors == {"AssertionError: thrown", "ZeroDivisionError: division by zero"}

\* What a call of the future has given its caller: nothing yet, the value
\* val, the exception err, or the AssertionError 'timed out waiting for'.
NoOut == [kind |-> "none", val |-> None, err |-> <<>>]

\* Before go(fn): no thread.  started and alive are the thread's, result is
\* result[0] (None at first), error is the list error, fin tells what fn
\* did, out is per caller the outcome of its last call of get_result, log
\* is what has been written to stderr, and body tells what the body of a
\* going(fn) block did.
NoFuture ==
    [started |-> FALSE, alive |-> FALSE, result |-> None, error |-> <<>>,
     fin |-> "no", out |-> [t \in Threads |-> NoOut], log |-> <<>>,
     body |-> "none"]

\* What fn can do: return None or a value, or raise an exception.
FnOutcomes ==
    {[kind |-> "value", val |-> v, err |-> <<>>] : v \in {None} \cup (1..MaxVal)}
    \cup {[kind |-> "raise", val |-> None, err |-> <<e>>] : e \in Errors}

\* ---------------------------------------------------------------- matcher

\* Matcher.matches: the opcode gate, the document-count gate and the
\* key/value subset gate.  The prototypes here are plain Request prototypes,
\* whose other public attributes are None, and their documents are plain
\* dicts, so the attribute loop and the ordered-document test pass.
Matches(proto, request) ==
    /\ proto.opcode \in {None, request.opcode}
    /\ Len(proto.docs) \in {0, Len(request.docs)}
    /\ \A i \in 1..Len(proto.docs) : \A kv \in proto.docs[i] : kv \in request.docs[i]

\* ------------------------------------------------------ Matcher, in full
\* A prototype or a request is [cls, attrs, docs]: its class, the values its
\* constructor stored (None where none was given) and its documents.  A
\* document is [ordered, items]: whether it is an OrderedDict or SON, and its
\* key/value pairs in key order, an item's value being None for a None value.

Classes == {"Request", "OpQuery", "Command", "OpInsert", "OpGetMore", "OpKillCursors"}
AttrNames == {"flags", "namespace", "request_id", "num_to_skip", "num_to_return",
              "fields", "cursor_id", "cursor_ids"}
Vals == 1..MaxVal

\* The class attribute opcode: OpQuery (and Command, its subclass) and the
\* legacy writes set it; OpGetMore and OpKillCursors leave Request's None.
ClassOp(cls) ==
    CASE cls \in {"OpQuery", "Command"} -> OP_QUERY
      [] cls = "OpInsert" -> OP_INSERT
      [] OTHER -> None

\* The keyword arguments each class's __init__ pops and stores.
Stored(cls) ==
    {"flags", "namespace", "request_id"} \cup
    (CASE cls \in {"OpQuery", "Command"} -> {"fields", "num_to_skip", "num_to_return"}
       [] cls = "OpGetMore" -> {"num_to_return", "cursor_id"}
       [] cls = "OpKillCursors" -> {"cursor_ids"}
       [] OTHER -> {})

\* The public names dir() finds on an instance, besides doc, docs, the
\* methods, and opcode, which the opcode test covers: each class's
\* properties.  OpGetMore keeps _cursor_id and has no property for it.
Public(cls) == Stored(cls) \ {"cursor_id"}

\* getattr(x, name, None).
GetAttr(x, name) == IF name \in Public(x.cls) THEN x.attrs[name] ELSE None

Plain(items) == [ordered |-> FALSE, items |-> items]
Ordered(items) == [ordered |-> TRUE, items |-> items]
KeysOf(doc) == [i \in 1..Len(doc.items) |-> doc.items[i][1]]
Has(doc, key) == \E i \in 1..Len(doc.items) : doc.items[i][1] = key

\* dict.get(key): the key's value, or None when the key is absent.
Get(doc, key) ==
    IF Has(doc, key)
    THEN doc.items[CHOOSE i \in 1..Len(doc.items) : doc.items[i][1] = key][2]
    ELSE None

\* A variant of seq_match that asks only that every element is there.
SeqMatchAnyOrder(seq0, seq1) ==
    \A i \in 1..Len(seq0) : \E j \in 1..Len(seq1) : seq1[j] = seq0[i]

\* seq_match's while loop: from index j on, the first index of seq1 that
\* holds elem, or one past the end.
RECURSIVE Scan(_, _, _)
Scan(seq1, elem, j) ==
    IF j > Len(seq1) THEN j
    ELSE IF seq1[j] = elem THEN j
    ELSE Scan(seq1, elem, j + 1)

\* seq_match's for loop from element i of seq0 and index j of seq1 on.
RECURSIVE SeqMatchFrom(_, _, _, _)
SeqMatchFrom(seq0, seq1, i, j) ==
    IF i > Len(seq0) THEN TRUE
    ELSE LET k == Scan(seq1, seq0[i], j)
         IN IF k > Len(seq1) THEN FALSE ELSE SeqMatchFrom(seq0, seq1, i + 1, k + 1)

\* seq_match(seq0, seq1).
SeqMatch(seq0, seq1) ==
    IF Len(seq1) < Len(seq0) THEN FALSE ELSE SeqMatchFrom(seq0, seq1, 1, 1)

\* Matcher.matches, one prototype document against the request's document:
\* the key/value loop, then the test for ordered documents.
DocOutcome(doc, other) ==
    IF \E i \in 1..Len(doc.items) : Get(other, doc.items[i][1]) # doc.items[i][2]
    THEN "False"
    ELSE IF ~doc.ordered THEN "pass"
    ELSE IF ~other.ordered THEN "TypeError"
    ELSE IF ~SeqMatch(KeysOf(doc), KeysOf(other)) THEN "False"
    ELSE "pass"

\* Matcher.matches, the loop over the prototype's documents from document i.
RECURSIVE DocsOutcome(_, _, _)
DocsOutcome(pdocs, rdocs, i) ==
    IF i > Len(pdocs) THEN "True"
    ELSE LET o == DocOutcome(pdocs[i], rdocs[i])
         IN IF o = "pass" THEN DocsOutcome(pdocs, rdocs, i + 1) ELSE o

\* Matcher(proto).matches(request): "True", "False", or "TypeError" when it
\* raises.
MatcherMatches(proto, request) ==
    IF ClassOp(proto.cls) \notin {None, ClassOp(request.cls)} THEN "False"
    ELSE IF \E name \in Public(proto.cls) :
                proto.attrs[name] \notin {None, GetAttr(request, name)}
    THEN "False"
    ELSE IF Len(proto.docs) \notin {0, Len(request.docs)} THEN "False"
    ELSE DocsOutcome(proto.docs, request.docs, 1)

\* The constructors: an OpQuery or Command without a document gets the
\* default filter {}.
Make(cls, attrs, docs) ==
    [cls |-> cls, attrs |-> attrs,
     docs |-> IF cls \in {"OpQuery", "Command"} /\ docs = <<>>
              THEN <<Plain(<<>>)>> ELSE docs]

\* The prototypes and requests matches is applied to.  One family gives one
\* stored attribute a value; the other gives documents to the classes that
\* take them: no, one or two documents, plain or ordered, of up to three
\* keys, with a value, another value or None, or a command name in one of
\* two spellings.
NoAttrs == [n \in AttrNames |-> None]
VariedAttrs == {"flags", "num_to_return", "cursor_id", "cursor_ids"}
AttrChoices(cls) ==
    {NoAttrs} \cup {[NoAttrs EXCEPT ![n] = v] : n \in Stored(cls) \cap VariedAttrs, v \in Vals}
ItemsAB == << <<"a", 1>>, <<"b", 1>> >>
ItemsBA == << <<"b", 1>>, <<"a", 1>> >>
ItemsABC == << <<"a", 1>>, <<"b", 1>>, <<"c", 1>> >>
\* Command('ismaster') and Command('IsMaster'): the command name is the
\* document's first key.
ItemsIsmaster == << <<"ismaster", 1>> >>
ItemsIsMaster == << <<"IsMaster", 1>> >>
DocItems ==
    {<<>>, ItemsAB, ItemsBA, ItemsABC, ItemsIsmaster, ItemsIsMaster}
    \cup {<< <<k, v>> >> : k \in {"a", "b"}, v \in {None} \cup Vals}
Documents == {Plain(it) : it \in DocItems} \cup {Ordered(it) : it \in DocItems}
OneDoc == {<<d>> : d \in Documents}
TwoDocs == {<<Plain(<< <<"a", 1>> >>), Plain(<< <<"b", 1>> >>)>>}
Objects ==
    UNION {{Make(cls, a, <<>>) : a \in AttrChoices(cls)} : cls \in Classes}
    \cup {Make(cls, NoAttrs, ds) : cls \in {"Request", "OpInsert"},
                                  ds \in {<<>>} \cup OneDoc \cup TwoDocs}
    \cup {Make(cls, NoAttrs, ds) : cls \in {"OpQuery", "Command"}, ds \in OneDoc}

\* A variant of Command._replies that sends the reply's documents as given.
CommandReplyDocsAsGiven(spec) == spec

\* Command._replies: no documents become [{'ok': 1}]; one document gets
\* 'ok': 1 unless it has an 'ok' already.
CommandReplyDocs(spec) ==
    IF Len(spec) = 0 THEN <<{<<"ok", 1>>}>>
    ELSE IF \E kv \in spec[1] : kv[1] = "ok" THEN spec
    ELSE <<spec[1] \cup {<<"ok", 1>>}>>

\* make_docs, the varargs case: TypeError unless every argument is a Mapping.
MakeDocsRaises(spec) == \E i \in 1..Len(spec) : spec[i] \in Callables

\* request.reply(spec) ends with an exception that is no socket.error:
\* make_docs' TypeError, Command._replies' ValueError for more than one
\* document, or struct.error when reply_bytes packs a request id of None.
ReplyRaises(request, spec) ==
    \/ MakeDocsRaises(spec)
    \/ request.opcode = OP_QUERY /\ Len(spec) > 1
    \/ request.request_id = None

\* The reply specs given as keyword arguments only, reply(ok=0, errmsg='bad'):
\* each call request.reply(*args, **kwargs) builds the dict kwargs anew, and
\* make_docs returns [kwargs].  A spec given as positional documents reaches
\* make_docs as the registered tuple args, and make_docs returns the
\* registered documents themselves.
KeywordSpecs == {ReplyBad}

\* A variant of Command._replies that adds 'ok' to a copy of the document.
SpecAfterReplyCopied(request, spec) == spec

\* The reply spec a responder holds after request.reply(*args, **kwargs) has
\* been called with it: Command._replies does reply.doc.setdefault('ok', 1)
\* on the document make_docs returned, before the reply is sent.
SpecAfterReply(request, spec) ==
    IF /\ request.opcode = OP_QUERY
       /\ Len(spec) = 1
       /\ spec \notin KeywordSpecs
       /\ ~MakeDocsRaises(spec)
    THEN CommandReplyDocs(spec) ELSE spec

\* ------------------------------------------------------------------ queue

\* What a single consumer sees as the queue: the peeked item, then the rest.
LogicalQueue == (IF item # NoItem THEN <<item>> ELSE <<>>) \o q


\* The state after MockupDB.__init__, but for the two variables that hold a
\* call's prototype and the request it has in hand.
\* The state after MockupDB.__init__ has left the responders auto in
\* _autoresponders, but for the two variables that hold a call's matcher
\* prototype and the request in hand.
InitWith(auto) ==
    /\ lock = "free"
    /\ stopped = FALSE
    /\ acceptThread = "none"
    /\ listening = "none"
    /\ autoresponders = auto
    /\ q = <<>>
    /\ item = NoItem
    /\ requestsCount = 0
    /\ sock = [c \in Conns |-> "none"]
    /\ wire = [c \in Conns |-> <<>>]
    /\ wpc = [c \in Conns |-> "none"]
    /\ wmsg = [c \in Conns |-> NoItem]
    /\ pc = [t \in Threads |-> "idle"]
    /\ op = [t \in Threads |-> "none"]
    /\ r = [t \in Threads |-> ReplyNone]
    /\ via = [t \in Threads |-> "none"]
    /\ blk = [t \in Threads |-> FALSE]
    /\ wait = [t \in Threads |-> 0]
    /\ remain = [t \in Threads |-> 0]
    /\ result = [t \in Threads |-> "none"]
    /\ joinSet = [t \in Threads |-> {}]
    /\ nextId = 1
    /\ dispatched = [i \in Ids |-> <<>>]
    /\ replies = [i \in Ids |-> <<>>]
    /\ removed = [i \in Ids |-> <<>>]
    /\ regHead = [i \in 1..Len(auto) |-> 0]
    /\ lateTicks = [t \in Threads |-> 0]
    /\ overlap = FALSE
    /\ waited = [i \in Ids |-> 0]
    /\ fut = NoFuture

\* MockupDB(): auto_ismaster is None and no responder is registered.
InitServer == InitWith(<<>>)

Init ==
    /\ InitServer
    /\ m = [t \in Threads |-> ProtoAny]
    /\ tmp = [t \in Threads |-> NoItem]

\* ----------------------------------------------------------------- server

life == <<stopped, acceptThread, listening>>
net == <<sock, wire>>

Max(S) == CHOOSE x \in S : \A y \in S : y <= x
Min(S) == CHOOSE x \in S : \A y \in S : x <= y

Matching(request) ==
    {i \in 1..Len(autoresponders) : Matches(autoresponders[i].matcher, request)}

\* Variants of the responder search: oldest first, and no search at all.
ResponderForOldest(request) ==
    IF Matching(request) = {} THEN 0 ELSE Min(Matching(request))

ResponderForNone(request) == 0

\* _server_loop's "for matcher, args, kwargs in reversed(self._autoresponders)":
\* the index of the responder that replies, 0 when the loop runs to its else.
ResponderFor(request) ==
    IF Matching(request) = {} THEN 0 ELSE Max(Matching(request))

\* A variant of Queue.put that puts the item at the front.
QueuePutFront(qq, request) == <<request>> \o qq

\* Queue.put: the item goes to the back of the queue.
QueuePut(qq, request) == Append(qq, request)

\* A variant of reply_bytes that echoes no request id.
ResponseToZero(request) == 0

\* OpReply.reply_bytes: response_to = request.request_id.
ResponseTo(request) == request.request_id

\* Request._replies / OpReply.reply_bytes: the reply written to the request's
\* connection, request._client; "by" and "how" record which responder sent
\* it and from where.  Only a Command's reply gets the 'ok' field.
Sent(request, spec, i, how) ==
    [replies EXCEPT ![request.id] =
        Append(@, [conn |-> request.conn,
                   docs |-> IF request.opcode = OP_QUERY
                            THEN CommandReplyDocs(spec) ELSE spec,
                   responseTo |-> ResponseTo(request),
                   by |-> i, how |-> how])]

\* run(): bind the listener and start the accept thread, under the lock.
Run(t) ==
    /\ pc[t] = "idle"
    /\ lock = "free"
    /\ acceptThread = "none"
    /\ ~stopped
    /\ listening' = "open"
    /\ acceptThread' = "running"
    /\ UNCHANGED <<lock, stopped, autoresponders, q, item, requestsCount, net,
                   wpc, wmsg, locals, history, fut>>

\* _accept_loop: accept a client and start its worker thread.
Accept(c) ==
    /\ acceptThread = "running"
    /\ listening = "open"
    /\ sock[c] = "none"
    /\ sock' = [sock EXCEPT ![c] = "open"]
    /\ wpc' = [wpc EXCEPT ![c] = "start"]
    /\ UNCHANGED <<lock, life, autoresponders, q, item, requestsCount, wire, wmsg,
                   locals, history, fut>>

\* _accept_loop, accept(): the listening socket hands over a client.  The
\* loop takes no lock, so stop() can run between this step and the next.
AcceptTake(c) ==
    /\ acceptThread = "running"
    /\ listening = "open"
    /\ \A d \in Conns : sock[d] # "accepted"
    /\ sock[c] = "none"
    /\ sock' = [sock EXCEPT ![c] = "accepted"]
    /\ UNCHANGED <<lock, life, autoresponders, q, item, requestsCount, wire, wpc,
                   wmsg, locals, history, fut>>

\* _accept_loop, after accept(): the worker thread and the socket are put in
\* _server_threads and _server_socks and the thread is started, whether or
\* not stop() has run in between.
AcceptRegister(c) ==
    /\ acceptThread = "running"
    /\ sock[c] = "accepted"
    /\ sock' = [sock EXCEPT ![c] = "open"]
    /\ wpc' = [wpc EXCEPT ![c] = "start"]
    /\ UNCHANGED <<lock, life, autoresponders, q, item, requestsCount, wire, wmsg,
                   locals, history, fut>>

\* _accept_loop leaves its loop once the server is stopped: at the loop test,
\* or when select fails on the closed listening socket.
AcceptExit ==
    /\ acceptThread = "running"
    /\ stopped
    /\ \A c \in Conns : sock[c] # "accepted"
    /\ acceptThread' = "done"
    /\ UNCHANGED <<lock, stopped, listening, autoresponders, q, item, requestsCount,
                   net, wpc, wmsg, locals, history, fut>>

\* A client writes one whole command message on its connection.
ClientSend(c, doc) ==
    /\ sock[c] = "open"
    /\ nextId <= MaxReqs
    /\ wire' = [wire EXCEPT ![c] = Append(@, Command(nextId, c, doc))]
    /\ nextId' = nextId + 1
    /\ UNCHANGED <<lock, life, autoresponders, q, item, requestsCount, sock, wpc,
                   wmsg, locals, dispatched, replies, removed, regHead, lateTicks,
                   overlap, waited, fut>>

\* A client writes one whole message of the given opcode.
ClientSendOp(c, opcode) ==
    /\ sock[c] = "open"
    /\ nextId <= MaxReqs
    /\ wire' = [wire EXCEPT ![c] = Append(@, Message(nextId, c, opcode, DocFoo))]
    /\ nextId' = nextId + 1
    /\ UNCHANGED <<lock, life, autoresponders, q, item, requestsCount, sock, wpc,
                   wmsg, locals, dispatched, replies, removed, regHead, lateTicks,
                   overlap, waited, fut>>

\* The requests of connection c that the queue or a test thread still holds.
Held(c) ==
    {k \in 1..Len(LogicalQueue) : LogicalQueue[k].conn = c} # {}
    \/ \E t \in Threads : tmp[t].conn = c

\* The worker thread of c has died of an exception.  Its target, the partial
\* that holds the client socket, is dropped with it, _server_socks holds the
\* socket weakly, and what else refers to it are the requests read from it:
\* once none is left the socket may be collected, which closes it.
Collect(c) ==
    /\ wpc[c] = "crashed"
    /\ sock[c] = "open"
    /\ ~Held(c)
    /\ sock' = [sock EXCEPT ![c] = "closed"]
    /\ UNCHANGED <<lock, life, autoresponders, q, item, requestsCount, wire, wpc,
                   wmsg, locals, history, fut>>

\* _server_loop, "while not self._stopped" evaluated with the lock held: either
\* release the lock for the blocking read, or close the socket and return.
LoopTest(c) ==
    IF stopped
    THEN /\ wpc' = [wpc EXCEPT ![c] = "done"]
         /\ sock' = [sock EXCEPT ![c] = "closed"]
         /\ lock' = "free"
    ELSE /\ wpc' = [wpc EXCEPT ![c] = "recv"]
         /\ sock' = sock
         /\ lock' = "free"

\* _synchronized: the worker takes the lock, then enters the loop.
WorkerStart(c) ==
    /\ wpc[c] = "start"
    /\ lock = "free"
    /\ LoopTest(c)
    /\ UNCHANGED <<life, autoresponders, q, item, requestsCount, wire, wmsg,
                   locals, history, fut>>

\* mock_server_receive_request with the lock released: one message is read
\* and unpacked.
WorkerRecv(c) ==
    /\ wpc[c] = "recv"
    /\ sock[c] = "open"
    /\ wire[c] # <<>>
    /\ Head(wire[c]).opcode \in OPCODES
    /\ wmsg' = [wmsg EXCEPT ![c] = Unpack(Head(wire[c]))]
    /\ wire' = [wire EXCEPT ![c] = Tail(@)]
    /\ wpc' = [wpc EXCEPT ![c] = "dispatch"]
    /\ UNCHANGED <<lock, life, autoresponders, q, item, requestsCount, sock,
                   locals, history, fut>>

\* A variant that counts the message before it fails to unpack it.
WorkerRecvBadCounted(c) ==
    /\ wpc[c] = "recv"
    /\ sock[c] = "open"
    /\ wire[c] # <<>>
    /\ Head(wire[c]).opcode \notin OPCODES
    /\ lock = "free"
    /\ wire' = [wire EXCEPT ![c] = Tail(@)]
    /\ wpc' = [wpc EXCEPT ![c] = "crashed"]
    /\ requestsCount' = requestsCount + 1
    /\ UNCHANGED <<lock, life, autoresponders, q, item, sock, wmsg, locals, history,
                   fut>>

\* mock_server_receive_request reads a message whose opcode is not in
\* OPCODES and raises NotImplementedError.  _unlock takes the lock again, and
\* the exception, which is no socket.error, leaves _server_loop: the lock is
\* released, the thread ends, and client.close() is not reached.
WorkerRecvBad(c) ==
    /\ wpc[c] = "recv"
    /\ sock[c] = "open"
    /\ wire[c] # <<>>
    /\ Head(wire[c]).opcode \notin OPCODES
    /\ lock = "free"
    /\ wire' = [wire EXCEPT ![c] = Tail(@)]
    /\ wpc' = [wpc EXCEPT ![c] = "crashed"]
    /\ UNCHANGED <<lock, life, autoresponders, q, item, requestsCount, sock, wmsg,
                   locals, history, fut>>

\* The read on a socket that stop() or hangup() has closed fails with EBADF,
\* or with ECONNRESET once the client closes its end: the worker takes the
\* lock again, breaks out of the loop, closes the socket and returns.
WorkerRecvErr(c) ==
    /\ wpc[c] = "recv"
    /\ sock[c] = "closed"
    /\ lock = "free"
    /\ wpc' = [wpc EXCEPT ![c] = "done"]
    /\ UNCHANGED <<lock, life, autoresponders, q, item, requestsCount, net, wmsg,
                   locals, history, fut>>

\* _server_loop from _unlock's finally on: take the lock again, count the
\* request, reply from the most recently added matching responder or put the
\* request on the queue, then test the loop condition.  All of it runs with
\* the lock held, and the threads that do not take the lock meet it only in
\* the queue's put, so it is one step.  A reply on a socket that stop() has
\* closed raises EBADF: the worker breaks out of the loop and returns.  A
\* reply that raises anything but a socket.error ends the thread: the lock is
\* released and client.close() is not reached.
WorkerDispatch(c) ==
    /\ wpc[c] = "dispatch"
    /\ lock = "free"
    /\ LET request == wmsg[c]
           i == ResponderFor(request)
       IN /\ requestsCount' = requestsCount + 1
          /\ wmsg' = [wmsg EXCEPT ![c] = NoItem]
          /\ IF i # 0 /\ ReplyRaises(request, autoresponders[i].reply)
             THEN /\ dispatched' = [dispatched EXCEPT ![request.id] =
                         Append(@, [n |-> Len(autoresponders), how |-> "error",
                                    request |-> request])]
                  /\ wpc' = [wpc EXCEPT ![c] = "crashed"]
                  /\ lock' = "free"
                  /\ UNCHANGED <<q, replies, sock, autoresponders>>
             ELSE IF i # 0 /\ sock[c] = "open"
             THEN /\ replies' = Sent(request, autoresponders[i].reply, i, "dispatch")
                  /\ autoresponders' = [autoresponders EXCEPT ![i].reply =
                                            SpecAfterReply(request, @)]
                  /\ dispatched' = [dispatched EXCEPT ![request.id] =
                         Append(@, [n |-> Len(autoresponders), how |-> "auto",
                                    request |-> request])]
                  /\ LoopTest(c)
                  /\ q' = q
             ELSE IF i # 0
             THEN /\ dispatched' = [dispatched EXCEPT ![request.id] =
                         Append(@, [n |-> Len(autoresponders), how |-> "sendfail",
                                    request |-> request])]
                  /\ autoresponders' = [autoresponders EXCEPT ![i].reply =
                                            SpecAfterReply(request, @)]
                  /\ wpc' = [wpc EXCEPT ![c] = "done"]
                  /\ lock' = "free"
                  /\ UNCHANGED <<q, replies, sock>>
             ELSE /\ q' = QueuePut(q, request)
                  /\ autoresponders' = autoresponders
                  /\ dispatched' = [dispatched EXCEPT ![request.id] =
                         Append(@, [n |-> Len(autoresponders), how |-> "queued",
                                    request |-> request])]
                  /\ LoopTest(c)
                  /\ replies' = replies
    /\ UNCHANGED <<life, item, wire, locals, nextId, removed,
                   regHead, lateTicks, overlap, waited, fut>>

\* ------------------------------------------------------- _PeekableQueue

\* Variants of get: one hands out the front item and leaves it in place, one
\* passes over the front item when another one is behind it.
QueueGetKeep(it, qq) ==
    IF it # NoItem THEN [ok |-> TRUE, val |-> it, item |-> it, q |-> qq]
    ELSE IF qq # <<>> THEN [ok |-> TRUE, val |-> Head(qq), item |-> NoItem, q |-> qq]
    ELSE [ok |-> FALSE, val |-> NoItem, item |-> NoItem, q |-> qq]

QueueGetSkip(it, qq) ==
    IF it # NoItem /\ qq # <<>>
    THEN [ok |-> TRUE, val |-> Head(qq), item |-> it, q |-> Tail(qq)]
    ELSE IF it # NoItem THEN [ok |-> TRUE, val |-> it, item |-> NoItem, q |-> qq]
    ELSE IF Len(qq) > 1
    THEN [ok |-> TRUE, val |-> qq[2], item |-> NoItem, q |-> <<qq[1]>> \o Tail(Tail(qq))]
    ELSE IF qq # <<>> THEN [ok |-> TRUE, val |-> Head(qq), item |-> NoItem, q |-> Tail(qq)]
    ELSE [ok |-> FALSE, val |-> NoItem, item |-> NoItem, q |-> qq]

\* _PeekableQueue.get on the contents (it, qq): the peeked item if there is
\* one, else the front of the Queue; ok is FALSE where Queue.get raises Empty.
QueueGet(it, qq) ==
    IF it # NoItem THEN [ok |-> TRUE, val |-> it, item |-> NoItem, q |-> qq]
    ELSE IF qq # <<>> THEN [ok |-> TRUE, val |-> Head(qq), item |-> NoItem, q |-> Tail(qq)]
    ELSE [ok |-> FALSE, val |-> NoItem, item |-> NoItem, q |-> qq]

\* _PeekableQueue.peek on the contents (it, qq): the peeked item if there is
\* one, else the front of the Queue is taken off and kept in _item.
QueuePeek(it, qq) ==
    IF it # NoItem THEN [ok |-> TRUE, val |-> it, item |-> it, q |-> qq]
    ELSE IF qq # <<>> THEN [ok |-> TRUE, val |-> Head(qq), item |-> Head(qq), q |-> Tail(qq)]
    ELSE [ok |-> FALSE, val |-> NoItem, item |-> NoItem, q |-> qq]

\* The record of who took a request off the queue, kept up to the second
\* taking of the same request.
Taken(request, how, t) ==
    [removed EXCEPT ![request.id] =
        IF Len(@) < 2 THEN Append(@, [how |-> how, by |-> t]) ELSE @]

\* ------------------------------------- the calls of a single test thread
\* With one consumer thread nothing else touches _item or takes from the
\* Queue, so a call's queue operation is one step.  A call that finds the
\* queue empty stands for the call whose wait ends with the queue still empty.

\* receives(proto): get, then return the request or raise.
Receives(t, proto) ==
    /\ pc[t] = "idle"
    /\ ~stopped
    /\ LET g == QueueGet(item, q)
       IN /\ item' = g.item
          /\ q' = g.q
          /\ tmp' = [tmp EXCEPT ![t] = g.val]
          /\ result' = [result EXCEPT ![t] =
                 IF ~g.ok THEN "timeout"
                 ELSE IF Matches(proto, g.val) THEN "request" ELSE "unexpected"]
          /\ removed' = IF g.ok THEN Taken(g.val, "receives", t) ELSE removed
    /\ pc' = [pc EXCEPT ![t] = "ret"]
    /\ op' = [op EXCEPT ![t] = "receives"]
    /\ m' = [m EXCEPT ![t] = proto]
    /\ UNCHANGED <<lock, life, autoresponders, requestsCount, net, wpc, wmsg, r,
                   via, blk, wait, remain, joinSet, nextId, dispatched, replies,
                   regHead, lateTicks, overlap, waited, fut>>

\* got(proto): peek, then return whether the request matches.
Got(t, proto) ==
    /\ pc[t] = "idle"
    /\ ~stopped
    /\ LET p == QueuePeek(item, q)
       IN /\ item' = p.item
          /\ q' = p.q
          /\ tmp' = [tmp EXCEPT ![t] = p.val]
          /\ result' = [result EXCEPT ![t] =
                 IF p.ok /\ Matches(proto, p.val) THEN "true" ELSE "false"]
    /\ pc' = [pc EXCEPT ![t] = "ret"]
    /\ op' = [op EXCEPT ![t] = "got"]
    /\ m' = [m EXCEPT ![t] = proto]
    /\ UNCHANGED <<lock, life, autoresponders, requestsCount, net, wpc, wmsg, r,
                   via, blk, wait, remain, joinSet, history, fut>>

\* A variant of autoresponds that looks through the whole queue and replies
\* to the first request that matches the new responder.
AutorespondsScan(t, proto, spec) ==
    /\ pc[t] = "idle"
    /\ lock = "free"
    /\ Len(autoresponders) < MaxResp
    /\ regHead' = Append(regHead, IF LogicalQueue = <<>> THEN 0 ELSE Head(LogicalQueue).id)
    /\ autoresponders' = Append(autoresponders, [matcher |-> proto, reply |-> spec])
    /\ LET lq == LogicalQueue
           ks == {k \in 1..Len(lq) : Matches(proto, lq[k])}
       IN IF ks # {}
          THEN /\ item' = NoItem
               /\ q' = SubSeq(lq, 1, Min(ks) - 1) \o SubSeq(lq, Min(ks) + 1, Len(lq))
               /\ tmp' = [tmp EXCEPT ![t] = lq[Min(ks)]]
               /\ removed' = Taken(lq[Min(ks)], "autoresponds", t)
               /\ replies' = Sent(lq[Min(ks)], spec, Len(autoresponders) + 1, "autoresponds")
               /\ result' = [result EXCEPT ![t] = "replied"]
          ELSE /\ result' = [result EXCEPT ![t] = "registered"]
               /\ UNCHANGED <<item, q, tmp, removed, replies>>
    /\ pc' = [pc EXCEPT ![t] = "ret"]
    /\ op' = [op EXCEPT ![t] = "autoresponds"]
    /\ m' = [m EXCEPT ![t] = proto]
    /\ r' = [r EXCEPT ![t] = spec]
    /\ UNCHANGED <<lock, life, requestsCount, net, wpc, wmsg, via, blk, wait,
                   remain, joinSet, nextId, dispatched, lateTicks, overlap, waited, fut>>

\* A variant of autoresponds that appends the responder and returns.
AutorespondsAppendOnly(t, proto, spec) ==
    /\ pc[t] = "idle"
    /\ lock = "free"
    /\ Len(autoresponders) < MaxResp
    /\ autoresponders' = Append(autoresponders, [matcher |-> proto, reply |-> spec])
    /\ regHead' = Append(regHead, IF LogicalQueue = <<>> THEN 0 ELSE Head(LogicalQueue).id)
    /\ pc' = [pc EXCEPT ![t] = "ret"]
    /\ op' = [op EXCEPT ![t] = "autoresponds"]
    /\ m' = [m EXCEPT ![t] = proto]
    /\ r' = [r EXCEPT ![t] = spec]
    /\ result' = [result EXCEPT ![t] = "registered"]
    /\ UNCHANGED <<lock, life, q, item, requestsCount, net, wpc, wmsg, tmp, via,
                   blk, wait, remain, joinSet, nextId, dispatched, replies,
                   removed, lateTicks, overlap, waited, fut>>

\* autoresponds(proto, spec), under the lock: append the responder, peek
\* without blocking, and if the peeked request matches, get it and reply.
Autoresponds(t, proto, spec) ==
    /\ pc[t] = "idle"
    /\ lock = "free"
    /\ Len(autoresponders) < MaxResp
    /\ regHead' = Append(regHead, IF LogicalQueue = <<>> THEN 0 ELSE Head(LogicalQueue).id)
    /\ LET p == QueuePeek(item, q)
           g == QueueGet(p.item, p.q)
       IN IF p.ok /\ Matches(proto, p.val)
          THEN /\ item' = g.item
               /\ autoresponders' = Append(autoresponders,
                      [matcher |-> proto, reply |-> SpecAfterReply(g.val, spec)])
               /\ q' = g.q
               /\ tmp' = [tmp EXCEPT ![t] = g.val]
               /\ removed' = Taken(g.val, "autoresponds", t)
               /\ IF sock[g.val.conn] = "open" /\ ~ReplyRaises(g.val, spec)
                  THEN /\ replies' = Sent(g.val, spec, Len(autoresponders) + 1, "autoresponds")
                       /\ result' = [result EXCEPT ![t] = "replied"]
                  ELSE /\ replies' = replies
                       /\ result' = [result EXCEPT ![t] = "error"]
          ELSE /\ item' = p.item
               /\ autoresponders' = Append(autoresponders,
                      [matcher |-> proto, reply |-> spec])
               /\ q' = p.q
               /\ tmp' = [tmp EXCEPT ![t] = p.val]
               /\ result' = [result EXCEPT ![t] = "registered"]
               /\ UNCHANGED <<removed, replies>>
    /\ pc' = [pc EXCEPT ![t] = "ret"]
    /\ op' = [op EXCEPT ![t] = "autoresponds"]
    /\ m' = [m EXCEPT ![t] = proto]
    /\ r' = [r EXCEPT ![t] = spec]
    /\ UNCHANGED <<lock, life, requestsCount, net, wpc, wmsg, via, blk, wait,
                   remain, joinSet, nextId, dispatched, lateTicks, overlap, waited, fut>>

\* server.replies(spec): pop() the next request, whatever it is, and reply
\* to it on its connection.
Replies(t, spec) ==
    /\ pc[t] = "idle"
    /\ ~stopped
    /\ LET g == QueueGet(item, q)
       IN /\ item' = g.item
          /\ q' = g.q
          /\ tmp' = [tmp EXCEPT ![t] = g.val]
          /\ removed' = IF g.ok THEN Taken(g.val, "replies", t) ELSE removed
          /\ IF ~g.ok
             THEN /\ result' = [result EXCEPT ![t] = "timeout"]
                  /\ replies' = replies
             ELSE IF sock[g.val.conn] = "open" /\ ~ReplyRaises(g.val, spec)
             THEN /\ result' = [result EXCEPT ![t] = "replied"]
                  /\ replies' = Sent(g.val, spec, 0, "replies")
             ELSE /\ result' = [result EXCEPT ![t] = "error"]
                  /\ replies' = replies
    /\ pc' = [pc EXCEPT ![t] = "ret"]
    /\ op' = [op EXCEPT ![t] = "replies"]
    /\ r' = [r EXCEPT ![t] = spec]
    /\ UNCHANGED <<lock, life, autoresponders, requestsCount, net, wpc, wmsg, m,
                   via, blk, wait, remain, joinSet, nextId, dispatched, regHead,
                   lateTicks, overlap, waited, fut>>

\* A variant of hangup that pops the request and leaves its connection open.
HangupKeepsOpen(t) ==
    /\ pc[t] = "idle"
    /\ ~stopped
    /\ LET g == QueueGet(item, q)
       IN /\ item' = g.item
          /\ q' = g.q
          /\ tmp' = [tmp EXCEPT ![t] = g.val]
          /\ result' = [result EXCEPT ![t] = IF g.ok THEN "hungup" ELSE "timeout"]
          /\ removed' = IF g.ok THEN Taken(g.val, "hangup", t) ELSE removed
    /\ pc' = [pc EXCEPT ![t] = "ret"]
    /\ op' = [op EXCEPT ![t] = "hangup"]
    /\ UNCHANGED <<lock, life, autoresponders, requestsCount, net, wpc, wmsg, m, r,
                   via, blk, wait, remain, joinSet, nextId, dispatched, replies,
                   regHead, lateTicks, overlap, waited, fut>>

\* server.hangup(): pop() the next request, whatever it is, and call its
\* hangup(), which closes the request's connection from the test thread.
Hangup(t) ==
    /\ pc[t] = "idle"
    /\ ~stopped
    /\ LET g == QueueGet(item, q)
       IN /\ item' = g.item
          /\ q' = g.q
          /\ tmp' = [tmp EXCEPT ![t] = g.val]
          /\ result' = [result EXCEPT ![t] = IF g.ok THEN "hungup" ELSE "timeout"]
          /\ removed' = IF g.ok THEN Taken(g.val, "hangup", t) ELSE removed
          /\ sock' = IF g.ok THEN [sock EXCEPT ![g.val.conn] = "closed"] ELSE sock
    /\ pc' = [pc EXCEPT ![t] = "ret"]
    /\ op' = [op EXCEPT ![t] = "hangup"]
    /\ UNCHANGED <<lock, life, autoresponders, requestsCount, wire, wpc, wmsg, m, r,
                   via, blk, wait, remain, joinSet, nextId, dispatched, replies,
                   regHead, lateTicks, overlap, waited, fut>>

\* request.hangup() on the request that receives has just returned.
RequestHangup(t) ==
    /\ pc[t] = "ret"
    /\ op[t] = "receives"
    /\ result[t] = "request"
    /\ sock' = [sock EXCEPT ![tmp[t].conn] = "closed"]
    /\ removed' = Taken(tmp[t], "hangup", t)
    /\ op' = [op EXCEPT ![t] = "hangup"]
    /\ result' = [result EXCEPT ![t] = "hungup"]
    /\ UNCHANGED <<lock, life, autoresponders, q, item, requestsCount, wire, wpc,
                   wmsg, pc, m, r, tmp, via, blk, wait, remain, joinSet, nextId,
                   dispatched, replies, regHead, lateTicks, overlap, waited, fut>>

\* The call returns to the test, which goes on to its next call.
Return(t) ==
    /\ pc[t] = "ret"
    /\ pc' = [pc EXCEPT ![t] = "idle"]
    /\ op' = [op EXCEPT ![t] = "none"]
    /\ m' = [m EXCEPT ![t] = ProtoAny]
    /\ r' = [r EXCEPT ![t] = ReplyNone]
    /\ tmp' = [tmp EXCEPT ![t] = NoItem]
    /\ via' = [via EXCEPT ![t] = "none"]
    /\ blk' = [blk EXCEPT ![t] = FALSE]
    /\ wait' = [wait EXCEPT ![t] = 0]
    /\ remain' = [remain EXCEPT ![t] = 0]
    /\ result' = [result EXCEPT ![t] = "none"]
    /\ lateTicks' = [lateTicks EXCEPT ![t] = 0]
    /\ UNCHANGED <<server, joinSet, nextId, dispatched, replies, removed, regHead,
                   overlap, waited, fut>>

\* -------------------------------------- the calls, statement by statement
\* receives and got do not take the lock, and _PeekableQueue reads and
\* writes _item without one, so with more than one test thread, or with time
\* passing, a call is a sequence of steps.  Queue.get itself is atomic: the
\* Queue has its own mutex.

\* The thread is inside a call that uses the request queue.
Inside(t) == pc[t] \notin {"idle", "ret", "stop_join"}
Entering(t) == overlap \/ \E u \in Threads \ {t} : Inside(u)

\* The thread is blocked in Queue.get(block=True, timeout) on an empty queue.
\* or in get_result's t.join(timeout) on a thread that is alive.
Blocked(t) ==
    \/ pc[t] = "get_q" /\ q = <<>> /\ blk[t] /\ wait[t] > 0
    \/ pc[t] \in {"join", "exit_join"} /\ fut.alive /\ wait[t] > 0

\* receives(proto, timeout=T), up to the loop.
ReceivesCall(t, proto, T) ==
    /\ pc[t] = "idle"
    /\ pc' = [pc EXCEPT ![t] = "rcv_loop"]
    /\ op' = [op EXCEPT ![t] = "receives"]
    /\ m' = [m EXCEPT ![t] = proto]
    /\ remain' = [remain EXCEPT ![t] = T]
    /\ overlap' = Entering(t)
    /\ waited' = waited
    /\ fut' = fut
    /\ UNCHANGED <<server, r, tmp, via, blk, wait, result, joinSet, nextId,
                   dispatched, replies, removed, regHead, lateTicks>>

\* receives, "while not self._stopped": get(timeout=0.05), or return None.
RcvLoop(t) ==
    /\ pc[t] = "rcv_loop"
    /\ IF stopped
       THEN /\ pc' = [pc EXCEPT ![t] = "ret"]
            /\ result' = [result EXCEPT ![t] = "None"]
            /\ UNCHANGED <<via, blk, wait>>
       ELSE /\ pc' = [pc EXCEPT ![t] = "get_chk"]
            /\ via' = [via EXCEPT ![t] = "receives"]
            /\ blk' = [blk EXCEPT ![t] = TRUE]
            /\ wait' = [wait EXCEPT ![t] = POLL]
            /\ result' = result
    /\ UNCHANGED <<server, op, m, r, tmp, remain, joinSet, history, fut>>

\* got(proto, timeout=T), up to the loop.
GotCall(t, proto, T) ==
    /\ pc[t] = "idle"
    /\ pc' = [pc EXCEPT ![t] = "got_loop"]
    /\ op' = [op EXCEPT ![t] = "got"]
    /\ m' = [m EXCEPT ![t] = proto]
    /\ remain' = [remain EXCEPT ![t] = T]
    /\ wait' = [wait EXCEPT ![t] = T]
    /\ overlap' = Entering(t)
    /\ waited' = waited
    /\ fut' = fut
    /\ UNCHANGED <<server, r, tmp, via, blk, result, joinSet, nextId, dispatched,
                   replies, removed, regHead, lateTicks>>

\* The timeout got hands to peek: the call's whole timeout, kept in wait
\* from the call on.
GotPeekTimeout(t) == wait[t]

\* got, "while not self._stopped": peek(timeout=timeout), or return None.
GotLoop(t) ==
    /\ pc[t] = "got_loop"
    /\ IF stopped
       THEN /\ pc' = [pc EXCEPT ![t] = "ret"]
            /\ result' = [result EXCEPT ![t] = "None"]
            /\ UNCHANGED <<blk, wait>>
       ELSE /\ pc' = [pc EXCEPT ![t] = "peek_chk"]
            /\ blk' = [blk EXCEPT ![t] = TRUE]
            /\ wait' = [wait EXCEPT ![t] = GotPeekTimeout(t)]
            /\ result' = result
    /\ UNCHANGED <<server, op, m, r, tmp, via, remain, joinSet, history, fut>>

\* autoresponds(proto, spec): take the lock, append the responder, and go on
\* to peek(block=False).
AutorespondsCall(t, proto, spec) ==
    /\ pc[t] = "idle"
    /\ lock = "free"
    /\ Len(autoresponders) < MaxResp
    /\ lock' = t
    /\ autoresponders' = Append(autoresponders, [matcher |-> proto, reply |-> spec])
    /\ regHead' = Append(regHead, 0)
    /\ pc' = [pc EXCEPT ![t] = "peek_chk"]
    /\ op' = [op EXCEPT ![t] = "autoresponds"]
    /\ m' = [m EXCEPT ![t] = proto]
    /\ r' = [r EXCEPT ![t] = spec]
    /\ blk' = [blk EXCEPT ![t] = FALSE]
    /\ overlap' = Entering(t)
    /\ waited' = waited
    /\ fut' = fut
    /\ UNCHANGED <<life, q, item, requestsCount, net, wpc, wmsg, tmp, via, wait,
                   remain, result, joinSet, nextId, dispatched, replies, removed,
                   lateTicks>>

\* get or peek returns the value v to the statement that called it.
\* receives matches it and returns it or raises; peek's own get goes on to
\* store it in _item; autoresponds' get_nowait replies to it and returns,
\* releasing the lock.  A value that is the _NO_ITEM object has none of a
\* request's attributes, and the caller ends with an AttributeError.
Deliver(t, v) ==
    /\ tmp' = [tmp EXCEPT ![t] = v]
    /\ CASE via[t] = "receives" ->
              /\ pc' = [pc EXCEPT ![t] = "ret"]
              /\ result' = [result EXCEPT ![t] =
                     IF v = NoItem THEN "error"
                     ELSE IF Matches(m[t], v) THEN "request" ELSE "unexpected"]
              /\ removed' = IF v = NoItem THEN removed ELSE Taken(v, "receives", t)
              /\ UNCHANGED <<replies, lock, autoresponders>>
         [] via[t] = "peek" ->
              /\ pc' = [pc EXCEPT ![t] = "peek_set"]
              /\ UNCHANGED <<result, removed, replies, lock, autoresponders>>
         [] via[t] = "nowait" ->
              /\ pc' = [pc EXCEPT ![t] = "ret"]
              /\ lock' = "free"
              /\ autoresponders' =
                     IF v = NoItem THEN autoresponders
                     ELSE [autoresponders EXCEPT ![Len(autoresponders)].reply =
                              SpecAfterReply(v, @)]
              /\ removed' = IF v = NoItem THEN removed ELSE Taken(v, "autoresponds", t)
              /\ IF v # NoItem /\ sock[v.conn] = "open" /\ ~ReplyRaises(v, r[t])
                 THEN /\ replies' = Sent(v, r[t], Len(autoresponders), "autoresponds")
                      /\ result' = [result EXCEPT ![t] = "replied"]
                 ELSE /\ replies' = replies
                      /\ result' = [result EXCEPT ![t] = "error"]

\* Queue.get raises Empty.  receives and got return at their deadline and
\* loop before it; autoresponds' peek returns; its get_nowait lets the
\* exception out of autoresponds.
Raised(t) ==
    CASE via[t] = "receives" ->
           /\ IF remain[t] = 0
              THEN /\ pc' = [pc EXCEPT ![t] = "ret"]
                   /\ result' = [result EXCEPT ![t] = "timeout"]
              ELSE /\ pc' = [pc EXCEPT ![t] = "rcv_loop"]
                   /\ result' = result
           /\ lock' = lock
      [] via[t] = "peek" /\ op[t] = "got" ->
           /\ IF remain[t] = 0
              THEN /\ pc' = [pc EXCEPT ![t] = "ret"]
                   /\ result' = [result EXCEPT ![t] = "false"]
              ELSE /\ pc' = [pc EXCEPT ![t] = "got_loop"]
                   /\ result' = result
           /\ lock' = lock
      [] via[t] = "peek" /\ op[t] = "autoresponds" ->
           /\ pc' = [pc EXCEPT ![t] = "ret"]
           /\ result' = [result EXCEPT ![t] = "registered"]
           /\ lock' = "free"
      [] via[t] = "nowait" ->
           /\ pc' = [pc EXCEPT ![t] = "ret"]
           /\ result' = [result EXCEPT ![t] = "error"]
           /\ lock' = "free"

\* _PeekableQueue.get, "if self._item is not _NO_ITEM".
GetChk(t) ==
    /\ pc[t] = "get_chk"
    /\ pc' = [pc EXCEPT ![t] = IF item # NoItem THEN "get_take" ELSE "get_q"]
    /\ UNCHANGED <<server, op, m, r, tmp, via, blk, wait, remain, result, joinSet,
                   history, fut>>

\* _PeekableQueue.get, "item = self._item".
GetTake(t) ==
    /\ pc[t] = "get_take"
    /\ tmp' = [tmp EXCEPT ![t] = item]
    /\ pc' = [pc EXCEPT ![t] = "get_clr"]
    /\ UNCHANGED <<server, op, m, r, via, blk, wait, remain, result, joinSet,
                   history, fut>>

\* A variant of the step below that returns the item and leaves it in _item.
GetClrKeep(t) ==
    /\ pc[t] = "get_clr"
    /\ item' = item
    /\ Deliver(t, tmp[t])
    /\ UNCHANGED <<life, q, requestsCount, net, wpc, wmsg, op, m,
                   r, via, blk, wait, remain, joinSet, nextId, dispatched,
                   regHead, lateTicks, overlap, waited, fut>>

\* _PeekableQueue.get, "self._item = _NO_ITEM; return item".
GetClr(t) ==
    /\ pc[t] = "get_clr"
    /\ item' = NoItem
    /\ Deliver(t, tmp[t])
    /\ UNCHANGED <<life, q, requestsCount, net, wpc, wmsg, op, m,
                   r, via, blk, wait, remain, joinSet, nextId, dispatched,
                   regHead, lateTicks, overlap, waited, fut>>

\* A variant of Queue.get that hands out the newest item.
GetQNewest(t) ==
    /\ pc[t] = "get_q"
    /\ q # <<>>
    /\ q' = SubSeq(q, 1, Len(q) - 1)
    /\ Deliver(t, q[Len(q)])
    /\ UNCHANGED <<life, item, requestsCount, net, wpc, wmsg, op,
                   m, r, via, blk, wait, remain, joinSet, nextId, dispatched,
                   regHead, lateTicks, overlap, waited, fut>>

\* Queue.get with an item in the queue.
GetQ(t) ==
    /\ pc[t] = "get_q"
    /\ q # <<>>
    /\ q' = Tail(q)
    /\ Deliver(t, Head(q))
    /\ UNCHANGED <<life, item, requestsCount, net, wpc, wmsg, op,
                   m, r, via, blk, wait, remain, joinSet, nextId, dispatched,
                   regHead, lateTicks, overlap, waited, fut>>

\* Queue.get on an empty queue, not blocking or at the end of its timeout.
GetEmpty(t) ==
    /\ pc[t] = "get_q"
    /\ q = <<>>
    /\ ~blk[t] \/ wait[t] = 0
    /\ Raised(t)
    /\ UNCHANGED <<life, autoresponders, q, item, requestsCount, net, wpc, wmsg,
                   op, m, r, tmp, via, blk, wait, remain, joinSet, history, fut>>

\* _PeekableQueue.peek, "if self._item is not _NO_ITEM", and the call of get
\* in its else branch.
PeekChk(t) ==
    /\ pc[t] = "peek_chk"
    /\ pc' = [pc EXCEPT ![t] = IF item # NoItem THEN "peek_ret" ELSE "get_chk"]
    /\ via' = [via EXCEPT ![t] = "peek"]
    /\ UNCHANGED <<server, op, m, r, tmp, blk, wait, remain, result, joinSet,
                   history, fut>>

\* A variant of the store below that forgets the item.
PeekSetDrop(t) ==
    /\ pc[t] = "peek_set"
    /\ pc' = [pc EXCEPT ![t] = "peek_ret"]
    /\ UNCHANGED <<server, op, m, r, tmp, via, blk, wait, remain, result,
                   joinSet, history, fut>>

\* _PeekableQueue.peek, "self._item = self.get(block, timeout)".
PeekSet(t) ==
    /\ pc[t] = "peek_set"
    /\ item' = tmp[t]
    /\ pc' = [pc EXCEPT ![t] = "peek_ret"]
    /\ UNCHANGED <<lock, life, autoresponders, q, requestsCount, net, wpc, wmsg,
                   op, m, r, tmp, via, blk, wait, remain, result, joinSet,
                   history, fut>>

\* A variant of the step below in which autoresponds goes on to get_nowait
\* whether or not the request matches.
PeekRetAny(t) ==
    /\ pc[t] = "peek_ret"
    /\ tmp' = [tmp EXCEPT ![t] = item]
    /\ regHead' = IF op[t] = "autoresponds"
                  THEN [regHead EXCEPT ![Len(autoresponders)] = item.id]
                  ELSE regHead
    /\ IF op[t] = "got"
       THEN /\ pc' = [pc EXCEPT ![t] = "ret"]
            /\ result' = [result EXCEPT ![t] =
                   IF item # NoItem /\ Matches(m[t], item) THEN "true" ELSE "false"]
            /\ via' = via
       ELSE /\ pc' = [pc EXCEPT ![t] = "get_chk"]
            /\ via' = [via EXCEPT ![t] = "nowait"]
            /\ result' = result
    /\ UNCHANGED <<lock, life, autoresponders, q, item, requestsCount, net, wpc,
                   wmsg, op, m, r, blk, wait, remain, joinSet, nextId, dispatched,
                   replies, removed, lateTicks, overlap, waited, fut>>

\* _PeekableQueue.peek, "return self._item", and what the caller does with
\* it: got returns whether it matches; autoresponds goes on to get_nowait if
\* it matches and returns, releasing the lock, if it does not.
PeekRet(t) ==
    /\ pc[t] = "peek_ret"
    /\ tmp' = [tmp EXCEPT ![t] = item]
    /\ regHead' = IF op[t] = "autoresponds"
                  THEN [regHead EXCEPT ![Len(autoresponders)] = item.id]
                  ELSE regHead
    /\ IF op[t] = "got"
       THEN /\ pc' = [pc EXCEPT ![t] = "ret"]
            /\ result' = [result EXCEPT ![t] =
                   IF item = NoItem THEN "error"
                   ELSE IF Matches(m[t], item) THEN "true" ELSE "false"]
            /\ UNCHANGED <<lock, via>>
       ELSE IF item # NoItem /\ Matches(m[t], item)
       THEN /\ pc' = [pc EXCEPT ![t] = "get_chk"]
            /\ via' = [via EXCEPT ![t] = "nowait"]
            /\ UNCHANGED <<lock, result>>
       ELSE /\ pc' = [pc EXCEPT ![t] = "ret"]
            /\ result' = [result EXCEPT ![t] =
                   IF item = NoItem THEN "error" ELSE "registered"]
            /\ lock' = "free"
            /\ via' = via
    /\ UNCHANGED <<life, autoresponders, q, item, requestsCount, net, wpc, wmsg,
                   op, m, r, blk, wait, remain, joinSet, nextId, dispatched,
                   replies, removed, lateTicks, overlap, waited, fut>>

\* The time each request has sat in the request queue, after one more
\* polling interval: counted up to one interval past reply_timeout.
Aged ==
    [id \in Ids |->
        IF /\ \E k \in 1..Len(LogicalQueue) : LogicalQueue[k].id = id
           /\ waited[id] <= ReplyTimeout
        THEN waited[id] + 1 ELSE waited[id]]

\* One polling interval passes.  Running Python code takes no time: time
\* passes only while every test thread is idle, blocked in a timed get, or
\* joining.
Tick ==
    /\ \A t \in Threads : pc[t] \in {"idle", "stop_join"} \/ Blocked(t)
    /\ \E t \in Threads : Blocked(t)
    /\ wait' = [t \in Threads |-> IF Blocked(t) THEN wait[t] - 1 ELSE wait[t]]
    /\ remain' = [t \in Threads |->
           IF Blocked(t) /\ remain[t] > 0 THEN remain[t] - 1 ELSE remain[t]]
    /\ lateTicks' = [t \in Threads |->
           IF Blocked(t) /\ stopped THEN lateTicks[t] + 1 ELSE lateTicks[t]]
    /\ waited' = Aged
    /\ fut' = fut
    /\ UNCHANGED <<server, pc, op, m, r, tmp, via, blk, result, joinSet, nextId,
                   dispatched, replies, removed, regHead, overlap>>

\* One polling interval passes while the test threads are busy elsewhere
\* and a request sits in the request queue.  No code reads _reply_timeout,
\* so nothing else happens.
TickIdle ==
    /\ \A t \in Threads : pc[t] = "idle"
    /\ Aged # waited
    /\ waited' = Aged
    /\ fut' = fut
    /\ UNCHANGED <<server, locals, nextId, dispatched, replies, removed, regHead,
                   lateTicks, overlap>>

\* stop(), under the lock: set _stopped, list the threads, close the
\* listening socket and the clients' sockets, release the lock for the joins.
\* On a server that was never run there is no listening socket to close, and
\* stop ends with an AttributeError after setting _stopped.
StopCall(t) ==
    /\ pc[t] = "idle"
    /\ lock = "free"
    /\ stopped' = TRUE
    /\ op' = [op EXCEPT ![t] = "stop"]
    /\ IF listening = "none"
       THEN /\ pc' = [pc EXCEPT ![t] = "ret"]
            /\ result' = [result EXCEPT ![t] = "error"]
            /\ UNCHANGED <<listening, sock, joinSet>>
       ELSE /\ listening' = "closed"
            /\ sock' = [c \in Conns |-> IF sock[c] = "open" THEN "closed" ELSE sock[c]]
            /\ joinSet' = [joinSet EXCEPT ![t] =
                   {"accept"} \cup {c \in Conns : wpc[c] # "none"}]
            /\ pc' = [pc EXCEPT ![t] = "stop_join"]
            /\ result' = result
    /\ UNCHANGED <<lock, acceptThread, autoresponders, q, item, requestsCount, wire,
                   wpc, wmsg, m, r, tmp, via, blk, wait, remain, history, fut>>

\* thread.join returns once the thread has ended, by returning or by an
\* exception.
Exited(th) ==
    IF th = "accept" THEN acceptThread = "done" ELSE wpc[th] \in {"done", "crashed"}

\* stop(), the joins and the return: every listed thread has exited, and the
\* lock is taken again on the way out.
StopJoin(t) ==
    /\ pc[t] = "stop_join"
    /\ \A th \in joinSet[t] : Exited(th)
    /\ lock = "free"
    /\ joinSet' = [joinSet EXCEPT ![t] = {}]
    /\ pc' = [pc EXCEPT ![t] = "ret"]
    /\ result' = [result EXCEPT ![t] = "stopped"]
    /\ UNCHANGED <<server, op, m, r, tmp, via, blk, wait, remain, history, fut>>

\* The running server with one test thread that calls receives('ping'),
\* got('ping') and autoresponds, a client on c1 that sends ping and foo
\* commands and a client on c2 that sends foo commands.
Next ==
    \/ Run("t1")
    \/ \E c \in Conns : Accept(c)
    \/ \E doc \in CommandDocs : ClientSend("c1", doc)
    \/ ClientSend("c2", DocFoo)
    \/ \E c \in Conns : WorkerStart(c)
    \/ \E c \in Conns : WorkerRecv(c)
    \/ \E c \in Conns : WorkerDispatch(c)
    \/ Receives("t1", ProtoPing)
    \/ Got("t1", ProtoPing)
    \/ \E a \in Responders : Autoresponds("t1", a.matcher, a.reply)
    \/ Return("t1")

Spec == Init /\ [][Next]_vars

\* One client, on c1; the server is run and its worker serves the client.
Serving ==
    \/ Run("t1")
    \/ Accept("c1")
    \/ \E doc \in CommandDocs : ClientSend("c1", doc)
    \/ WorkerStart("c1")
    \/ WorkerRecv("c1")
    \/ WorkerDispatch("c1")

\* The steps of _PeekableQueue.get and peek inside a call of thread t.
QueueSteps(t) ==
    \/ GetChk(t)
    \/ GetTake(t)
    \/ GetClr(t)
    \/ GetQ(t)
    \/ GetEmpty(t)
    \/ PeekChk(t)
    \/ PeekSet(t)
    \/ PeekRet(t)

\* One test thread that calls receives('ping') and got('ping') with a
\* timeout of 0 or MaxTimeout polling intervals, while time passes.
NextT ==
    \/ Serving
    \/ \E T \in Timeouts : ReceivesCall("t1", ProtoPing, T)
    \/ RcvLoop("t1")
    \/ \E T \in Timeouts : GotCall("t1", ProtoPing, T)
    \/ GotLoop("t1")
    \/ QueueSteps("t1")
    \/ Tick
    \/ Return("t1")

SpecT == Init /\ [][NextT]_vars

\* The same, and a second thread that calls stop().
NextStop ==
    \/ NextT
    \/ StopCall("t2")
    \/ StopJoin("t2")
    \/ Return("t2")
    \/ AcceptExit
    \/ WorkerRecvErr("c1")

SpecStop == Init /\ [][NextStop]_vars

\* Two test threads: the first calls receives('ping', timeout=0) and
\* got('ping', timeout=0), the second calls got('ping', timeout=0).
NextMT ==
    \/ Serving
    \/ ReceivesCall("t1", ProtoPing, 0)
    \/ RcvLoop("t1")
    \/ \E t \in Threads : GotCall(t, ProtoPing, 0)
    \/ \E t \in Threads : GotLoop(t)
    \/ \E t \in Threads : QueueSteps(t)
    \/ Tick
    \/ \E t \in Threads : Return(t)

SpecMT == Init /\ [][NextMT]_vars

\* Two test threads: the first calls receives('ping', timeout=0), the second
\* calls autoresponds('ping', ok=0, errmsg='bad').
NextAR ==
    \/ Serving
    \/ ReceivesCall("t1", ProtoPing, 0)
    \/ RcvLoop("t1")
    \/ AutorespondsCall("t2", ProtoPing, ReplyBad)
    \/ \E t \in Threads : QueueSteps(t)
    \/ Tick
    \/ \E t \in Threads : Return(t)

SpecAR == Init /\ [][NextAR]_vars

\* Shutdown: the accept loop step by step, one client on each connection,
\* and two test threads that call stop() any number of times, before or
\* after run().
NextDown ==
    \/ Run("t1")
    \/ \E c \in Conns : AcceptTake(c)
    \/ \E c \in Conns : AcceptRegister(c)
    \/ AcceptExit
    \/ ClientSend("c1", DocPing)
    \/ \E c \in Conns : WorkerStart(c)
    \/ \E c \in Conns : WorkerRecv(c)
    \/ \E c \in Conns : WorkerRecvErr(c)
    \/ \E c \in Conns : WorkerDispatch(c)
    \/ \E t \in Threads : StopCall(t)
    \/ \E t \in Threads : StopJoin(t)
    \/ \E t \in Threads : Return(t)

SpecDown == Init /\ [][NextDown]_vars

\* Hangups: a client on each connection, and one test thread that receives
\* requests and hangs up on them, by server.hangup() or by request.hangup().
NextHang ==
    \/ Run("t1")
    \/ \E c \in Conns : Accept(c)
    \/ ClientSend("c1", DocPing)
    \/ ClientSend("c2", DocFoo)
    \/ \E c \in Conns : WorkerStart(c)
    \/ \E c \in Conns : WorkerRecv(c)
    \/ \E c \in Conns : WorkerRecvErr(c)
    \/ \E c \in Conns : WorkerDispatch(c)
    \/ Receives("t1", ProtoAny)
    \/ RequestHangup("t1")
    \/ Hangup("t1")
    \/ Return("t1")

SpecHang == Init /\ [][NextHang]_vars

\* The worker threads are threads of their own: a worker that can take its
\* next step (the lock is free, its read has something to return) takes it.
WorkersRun ==
    \A c \in Conns :
        /\ WF_vars(WorkerStart(c))
        /\ WF_vars(WorkerRecv(c))
        /\ WF_vars(WorkerRecvErr(c))
        /\ WF_vars(WorkerDispatch(c))

SpecHangFair == SpecHang /\ WorkersRun

\* Every opcode: a client on c1 that sends messages of each opcode in
\* OPCODES, a client on c2 that sends foo commands, and one test thread that
\* registers autoresponds(Request()) and calls replies().
NextOps ==
    \/ Run("t1")
    \/ \E c \in Conns : Accept(c)
    \/ \E opcode \in OPCODES : ClientSendOp("c1", opcode)
    \/ ClientSend("c2", DocFoo)
    \/ \E c \in Conns : WorkerStart(c)
    \/ \E c \in Conns : WorkerRecv(c)
    \/ \E c \in Conns : WorkerDispatch(c)
    \/ Autoresponds("t1", ProtoAny, ReplyNone)
    \/ Replies("t1", ReplyNone)
    \/ Return("t1")

SpecOps == Init /\ [][NextOps]_vars

\* What auto_ismaster leaves in _autoresponders: nothing when it is unset,
\* autoresponds('ismaster') when it is True, autoresponds('ismaster', doc)
\* when it is a document.
AutoIsmaster ==
    {<<>>,
     <<[matcher |-> ProtoIsmaster, reply |-> ReplyNone]>>,
     <<[matcher |-> ProtoIsmaster, reply |-> ReplyWire]>>}

InitIsm ==
    /\ \E auto \in AutoIsmaster : InitWith(auto)
    /\ m = [t \in Threads |-> ProtoAny]
    /\ tmp = [t \in Threads |-> NoItem]

\* A server made with or without auto_ismaster: a client on c1 sends the
\* ismaster command in either spelling, one on c2 sends ping, and the test
\* thread calls receives().
NextIsm ==
    \/ Run("t1")
    \/ \E c \in Conns : Accept(c)
    \/ \E doc \in {DocIsmaster, DocIsMaster} : ClientSend("c1", doc)
    \/ ClientSend("c2", DocPing)
    \/ \E c \in Conns : WorkerStart(c)
    \/ \E c \in Conns : WorkerRecv(c)
    \/ \E c \in Conns : WorkerDispatch(c)
    \/ Receives("t1", ProtoAny)
    \/ Return("t1")

SpecIsm == InitIsm /\ [][NextIsm]_vars

\* Requests left waiting: a client on c1 sends ping commands, and the test
\* thread lets time pass before it calls receives() or replies().
NextLate ==
    \/ Run("t1")
    \/ Accept("c1")
    \/ ClientSend("c1", DocPing)
    \/ WorkerStart("c1")
    \/ WorkerRecv("c1")
    \/ WorkerDispatch("c1")
    \/ TickIdle
    \/ Receives("t1", ProtoAny)
    \/ Replies("t1", ReplyNone)
    \/ Return("t1")

SpecLate == Init /\ [][NextLate]_vars

\* ------------------------------------------------------------- go(fn)

\* go(fn): start the daemon thread that runs target, and return get_result.
Go(t) ==
    /\ pc[t] = "idle"
    /\ ~fut.started
    /\ fut' = [fut EXCEPT !.started = TRUE, !.alive = TRUE]
    /\ UNCHANGED <<server, locals, history>>

\* target(): fn returns and its value is stored in result[0], or fn raises
\* an Exception and sys.exc_info() is stored in error.
FnFinish(o) ==
    /\ fut.alive
    /\ fut.fin = "no"
    /\ fut' = [fut EXCEPT !.fin = o.kind,
                          !.result = IF o.kind = "value" THEN o.val ELSE @,
                          !.error = IF o.kind = "raise" THEN o.err ELSE @]
    /\ UNCHANGED <<server, locals, history>>

\* target has returned and the thread ends.
FnExit ==
    /\ fut.alive
    /\ fut.fin # "no"
    /\ fut' = [fut EXCEPT !.alive = FALSE]
    /\ UNCHANGED <<server, locals, history>>

\* get_result(timeout=T), up to t.join(timeout).
GetResultCall(t, T) ==
    /\ pc[t] = "idle"
    /\ fut.started
    /\ pc' = [pc EXCEPT ![t] = "join"]
    /\ op' = [op EXCEPT ![t] = "future"]
    /\ wait' = [wait EXCEPT ![t] = T]
    /\ UNCHANGED <<server, m, r, tmp, via, blk, remain, result, joinSet, history,
                   fut>>

\* t.join(timeout) returns: the thread has ended, or the timeout has passed.
JoinEnd(t) ==
    /\ pc[t] = "join"
    /\ ~fut.alive \/ wait[t] = 0
    /\ pc' = [pc EXCEPT ![t] = "alive_chk"]
    /\ UNCHANGED <<server, op, m, r, tmp, via, blk, wait, remain, result, joinSet,
                   history, fut>>

\* A variant of get_result without the is_alive test.
GetResultEndNoTest(t) ==
    /\ pc[t] = "alive_chk"
    /\ pc' = [pc EXCEPT ![t] = "ret"]
    /\ fut' = [fut EXCEPT !.out[t] =
                   IF fut.error # <<>>
                   THEN [kind |-> "raise", val |-> None, err |-> fut.error]
                   ELSE [kind |-> "value", val |-> fut.result, err |-> <<>>]]
    /\ result' = [result EXCEPT ![t] = IF fut.error # <<>> THEN "raised" ELSE "returned"]
    /\ UNCHANGED <<server, op, m, r, tmp, via, blk, wait, remain, joinSet, history>>

\* A variant of get_result that forgets the error once it has raised it.
GetResultEndOnce(t) ==
    /\ pc[t] = "alive_chk"
    /\ pc' = [pc EXCEPT ![t] = "ret"]
    /\ fut' = [fut EXCEPT
                   !.out[t] =
                       IF fut.alive THEN [kind |-> "timeout", val |-> None, err |-> <<>>]
                       ELSE IF fut.error # <<>>
                       THEN [kind |-> "raise", val |-> None, err |-> fut.error]
                       ELSE [kind |-> "value", val |-> fut.result, err |-> <<>>],
                   !.error = IF fut.alive THEN @ ELSE <<>>]
    /\ result' = [result EXCEPT ![t] =
                      IF fut.alive THEN "timeout"
                      ELSE IF fut.error # <<>> THEN "raised" ELSE "returned"]
    /\ UNCHANGED <<server, op, m, r, tmp, via, blk, wait, remain, joinSet, history>>

\* get_result after the join: AssertionError('timed out waiting for ...')
\* if the thread is alive, else reraise(*error) if error has the exception,
\* else return result[0].
GetResultEnd(t) ==
    /\ pc[t] = "alive_chk"
    /\ pc' = [pc EXCEPT ![t] = "ret"]
    /\ fut' = [fut EXCEPT !.out[t] =
                   IF fut.alive THEN [kind |-> "timeout", val |-> None, err |-> <<>>]
                   ELSE IF fut.error # <<>>
                   THEN [kind |-> "raise", val |-> None, err |-> fut.error]
                   ELSE [kind |-> "value", val |-> fut.result, err |-> <<>>]]
    /\ result' = [result EXCEPT ![t] =
                      IF fut.alive THEN "timeout"
                      ELSE IF fut.error # <<>> THEN "raised" ELSE "returned"]
    /\ UNCHANGED <<server, op, m, r, tmp, via, blk, wait, remain, joinSet, history>>

\* go(fn) and calls of the future from two threads, with timeouts of no
\* time and of some time.
NextGo ==
    \/ Go("t1")
    \/ \E o \in FnOutcomes : FnFinish(o)
    \/ FnExit
    \/ \E t \in Threads, T \in Timeouts : GetResultCall(t, T)
    \/ \E t \in Threads : JoinEnd(t)
    \/ \E t \in Threads : GetResultEnd(t)
    \/ \E t \in Threads : Return(t)
    \/ Tick

SpecGo == Init /\ [][NextGo]_vars

\* --------------------------------------------------------- going(fn)

\* The exception the body of the block raises.
BlockError == "ZeroDivisionError: division by zero"

\* The error of a call of the future that timed out.
TimedOut == "AssertionError: timed out waiting for"

\* with going(fn) as future: go(fn), and the body of the block begins.
GoingEnter(t) ==
    /\ pc[t] = "idle"
    /\ ~fut.started
    /\ fut' = [fut EXCEPT !.started = TRUE, !.alive = TRUE, !.body = "running"]
    /\ pc' = [pc EXCEPT ![t] = "block"]
    /\ op' = [op EXCEPT ![t] = "going"]
    /\ UNCHANGED <<server, m, r, tmp, via, blk, wait, remain, result, joinSet,
                   history>>

\* The body of the block ends, normally or with BlockError, and the block's
\* exit begins to join the future, for a bounded time.
BodyEnd(t, how) ==
    /\ pc[t] = "block"
    /\ fut' = [fut EXCEPT !.body = how]
    /\ pc' = [pc EXCEPT ![t] = "exit_join"]
    /\ wait' = [wait EXCEPT ![t] = MaxTimeout]
    /\ UNCHANGED <<server, op, m, r, tmp, via, blk, remain, result, joinSet,
                   history>>

\* The block's exit, after the join.  If the body raised, its exception
\* propagates, and if the future fails too, the future's exception is written
\* to stderr after the prefix 'error in going('.  If the body ended
\* normally, the block ends as the call of the future ends.
GoingExit(t) ==
    /\ pc[t] = "exit_join"
    /\ ~fut.alive \/ wait[t] = 0
    /\ pc' = [pc EXCEPT ![t] = "ret"]
    /\ LET called == IF fut.alive THEN [kind |-> "timeout", val |-> None, err |-> <<>>]
                     ELSE IF fut.error # <<>>
                     THEN [kind |-> "raise", val |-> None, err |-> fut.error]
                     ELSE [kind |-> "value", val |-> fut.result, err |-> <<>>]
       IN IF fut.body = "raised"
          THEN /\ fut' = [fut EXCEPT
                             !.out[t] = [kind |-> "raise", val |-> None,
                                         err |-> <<BlockError>>],
                             !.log = IF called.kind = "value" THEN @
                                     ELSE Append(@, [prefix |-> "error in going(",
                                                     err |-> IF called.kind = "timeout"
                                                             THEN <<TimedOut>>
                                                             ELSE called.err])]
               /\ result' = [result EXCEPT ![t] = "raised"]
          ELSE /\ fut' = [fut EXCEPT !.out[t] = called]
               /\ result' = [result EXCEPT ![t] =
                                 CASE called.kind = "timeout" -> "timeout"
                                   [] called.kind = "raise" -> "raised"
                                   [] OTHER -> "returned"]
    /\ UNCHANGED <<server, op, m, r, tmp, via, blk, wait, remain, joinSet, history>>

\* A block with going(fn) in one thread, and explicit calls of the future
\* from both threads.
NextGoing ==
    \/ GoingEnter("t1")
    \/ \E o \in FnOutcomes : FnFinish(o)
    \/ FnExit
    \/ \E how \in {"ok", "raised"} : BodyEnd("t1", how)
    \/ GoingExit("t1")
    \/ \E t \in Threads, T \in Timeouts : GetResultCall(t, T)
    \/ \E t \in Threads : JoinEnd(t)
    \/ \E t \in Threads : GetResultEnd(t)
    \/ \E t \in Threads : Return(t)
    \/ Tick

SpecGoing == Init /\ [][NextGoing]_vars

\* ----------------------------------------------------------- iteration

\* next(): request = self.receives(), with no spec and the server's
\* request_timeout.
IterCall(t) ==
    /\ pc[t] = "idle"
    /\ pc' = [pc EXCEPT ![t] = "rcv_loop"]
    /\ op' = [op EXCEPT ![t] = "next"]
    /\ m' = [m EXCEPT ![t] = ProtoAny]
    /\ remain' = [remain EXCEPT ![t] = MaxTimeout]
    /\ overlap' = Entering(t)
    /\ waited' = waited
    /\ fut' = fut
    /\ UNCHANGED <<server, r, tmp, via, blk, wait, result, joinSet, nextId,
                   dispatched, replies, removed, regHead, lateTicks>>

\* A variant of next that ends the iteration when receives raises.
IterStopOnError(t) ==
    /\ pc[t] = "ret"
    /\ op[t] = "next"
    /\ result[t] \in {"None", "timeout"}
    /\ result' = [result EXCEPT ![t] = "StopIteration"]
    /\ UNCHANGED <<server, pc, op, m, r, tmp, via, blk, wait, remain, joinSet,
                   history, fut>>

\* next(), after receives has returned None: raise StopIteration.
IterStop(t) ==
    /\ pc[t] = "ret"
    /\ op[t] = "next"
    /\ result[t] = "None"
    /\ result' = [result EXCEPT ![t] = "StopIteration"]
    /\ UNCHANGED <<server, pc, op, m, r, tmp, via, blk, wait, remain, joinSet,
                   history, fut>>

\* next() has ended, with a request, with StopIteration or with receives'
\* AssertionError, and the test goes on.
IterReturn(t) ==
    /\ op[t] = "next"
    /\ result[t] # "None"
    /\ Return(t)

\* "for request in server" in one thread, while a client sends commands and
\* a second thread calls stop().
NextIter ==
    \/ Serving
    \/ IterCall("t1")
    \/ RcvLoop("t1")
    \/ GetChk("t1")
    \/ GetQ("t1")
    \/ GetEmpty("t1")
    \/ Tick
    \/ IterStop("t1")
    \/ IterReturn("t1")
    \/ StopCall("t2")
    \/ StopJoin("t2")
    \/ Return("t2")
    \/ AcceptExit
    \/ WorkerRecvErr("c1")

SpecIter == Init /\ [][NextIter]_vars

\* ------------------------------------------------------ OpQuery.unpack
\* An attribute that may be None is <<>> for None and <<v>> for the value
\* v, so that flags of 0 and flags of None differ.  A namespace is the
\* sequence of its parts between the dots.
Nothing == <<>>
Some(v) == <<v>>

\* namespace.endswith('.$cmd').
EndsWithCmd(namespace) ==
    Len(namespace) >= 2 /\ namespace[Len(namespace)] = "$cmd"

\* namespace[:-len('.$cmd')].
TrimCmd(namespace) == SubSeq(namespace, 1, Len(namespace) - 1)

\* OpQuery.unpack(msg, client, server, request_id).  The Command is made
\* from the documents, the trimmed namespace and the request id: its flags,
\* num_to_skip and num_to_return are left None.
OpQueryUnpack(msg) ==
    IF EndsWithCmd(msg.namespace)
    THEN [cls |-> "Command", docs |-> msg.docs, fields |-> Nothing,
          namespace |-> Some(TrimCmd(msg.namespace)), flags |-> Nothing,
          num_to_skip |-> Nothing, num_to_return |-> Nothing,
          request_id |-> Some(msg.request_id)]
    ELSE [cls |-> "OpQuery", docs |-> <<msg.docs[1]>>,
          fields |-> IF Len(msg.docs) = 1 THEN Nothing ELSE Some(msg.docs[2]),
          namespace |-> Some(msg.namespace), flags |-> Some(msg.flags),
          num_to_skip |-> Some(msg.num_to_skip),
          num_to_return |-> Some(msg.num_to_return),
          request_id |-> Some(msg.request_id)]

\* QUERY_FLAGS: no flag, TailableCursor, SlaveOkay, and both.
QueryFlags == {0, 2, 4, 6}

\* The namespaces of the messages: commands on two databases, a collection,
\* and a collection whose name has '$cmd' in the middle.
Namespaces ==
    {<<"db", "$cmd">>, <<"admin", "$cmd">>, <<"db", "collection">>,
     <<"db", "$cmd", "sys">>}

\* The OP_QUERY messages a client sends: a command has one document, a
\* query has its filter and may have a fields selector.
QueryMessages ==
    {[flags |-> f, namespace |-> ns, num_to_skip |-> sk, num_to_return |-> rt,
      docs |-> ds, request_id |-> id] :
        f \in QueryFlags, ns \in Namespaces, sk \in 0..MaxVal, rt \in 0..MaxVal,
        ds \in {<<DocFoo>>, <<DocFoo, DocPing>>}, id \in Ids}
    \ {msg \in [flags : QueryFlags, namespace : Namespaces, num_to_skip : 0..MaxVal,
                 num_to_return : 0..MaxVal, docs : {<<DocFoo, DocPing>>},
                 request_id : Ids] : EndsWithCmd(msg.namespace)}

\* OpQuery.unpack in thread t, on the message in m[t]; the request goes to
\* tmp[t].
UnpackCall(t) ==
    /\ pc[t] = "idle"
    /\ m[t] \in QueryMessages
    /\ pc' = [pc EXCEPT ![t] = "ret"]
    /\ op' = [op EXCEPT ![t] = "unpack"]
    /\ tmp' = [tmp EXCEPT ![t] = OpQueryUnpack(m[t])]
    /\ UNCHANGED <<server, m, r, via, blk, wait, remain, result, joinSet, history,
                   fut>>

\* unpack alone: any OP_QUERY message.
InitUnpack ==
    /\ InitServer
    /\ \E msg \in QueryMessages :
          m = [t \in Threads |-> IF t = "t1" THEN msg ELSE ProtoAny]
    /\ tmp = [t \in Threads |-> NoItem]

NextUnpack == UnpackCall("t1")

SpecUnpack == InitUnpack /\ [][NextUnpack]_vars

\* The request counter: clients on two connections send ping commands,
\* foo commands and messages of an unknown opcode, a responder answers the
\* pings, and a second thread calls stop().
NextCount ==
    \/ Run("t1")
    \/ \E c \in Conns : Accept(c)
    \/ ClientSend("c1", DocPing)
    \/ ClientSendOp("c1", BadOpcode)
    \/ \E doc \in CommandDocs : ClientSend("c2", doc)
    \/ \E c \in Conns : WorkerStart(c)
    \/ \E c \in Conns : WorkerRecv(c)
    \/ \E c \in Conns : WorkerRecvBad(c)
    \/ \E c \in Conns : WorkerRecvErr(c)
    \/ \E c \in Conns : WorkerDispatch(c)
    \/ Autoresponds("t1", ProtoPing, ReplyNone)
    \/ Return("t1")
    \/ StopCall("t2")
    \/ StopJoin("t2")
    \/ Return("t2")
    \/ AcceptExit

SpecCount == Init /\ [][NextCount]_vars

\* ------------------------------------------------- calls after stop()

\* The operations that are self.pop().o(...): replies and its synonyms,
\* fail, command_err and hangup.
PopOps == {"replies", "fail", "command_err", "hangup"}

\* server.o(...) for o in PopOps on a stopped server: pop() is receives(),
\* which returns None, and None has no attribute o: AttributeError.
PopNone(t, o) ==
    /\ pc[t] = "idle"
    /\ stopped
    /\ pc' = [pc EXCEPT ![t] = "ret"]
    /\ op' = [op EXCEPT ![t] = o]
    /\ result' = [result EXCEPT ![t] = "error"]
    /\ UNCHANGED <<server, m, r, tmp, via, blk, wait, remain, joinSet, history,
                   fut>>

\* A server that serves a client and is stopped by one thread; the other
\* thread then calls receives, got, replies, fail, command_err and hangup.
NextStopped ==
    \/ Serving
    \/ StopCall("t2")
    \/ StopJoin("t2")
    \/ Return("t2")
    \/ AcceptExit
    \/ WorkerRecvErr("c1")
    \/ stopped /\ \E T \in Timeouts : ReceivesCall("t1", ProtoAny, T)
    \/ RcvLoop("t1")
    \/ stopped /\ \E T \in Timeouts : GotCall("t1", ProtoAny, T)
    \/ GotLoop("t1")
    \/ \E o \in PopOps : PopNone("t1", o)
    \/ Return("t1")

SpecStopped == Init /\ [][NextStopped]_vars

\* The reply specs the test replies with: none, {'a': 1}, ok=0 with an
\* errmsg, and two documents.
ReplyChoices == {ReplyNone, ReplyA, ReplyBad, ReplyTwo}

\* Replies from the test: a client on c1 that sends ping commands, one on c2
\* that sends OP_INSERT messages, and a test thread that answers the queued
\* requests with server.replies(spec).
NextReply ==
    \/ Run("t1")
    \/ \E c \in Conns : Accept(c)
    \/ ClientSend("c1", DocPing)
    \/ ClientSendOp("c2", OP_INSERT)
    \/ \E c \in Conns : WorkerStart(c)
    \/ \E c \in Conns : WorkerRecv(c)
    \/ \E c \in Conns : WorkerDispatch(c)
    \/ \E spec \in ReplyChoices : Replies("t1", spec)
    \/ Return("t1")

SpecReply == Init /\ [][NextReply]_vars

\* Matcher(proto).matches(request) in thread t, with proto in m[t] and the
\* request in tmp[t].
MatchesCall(t) ==
    /\ pc[t] = "idle"
    /\ m[t] \in Objects
    /\ pc' = [pc EXCEPT ![t] = "ret"]
    /\ op' = [op EXCEPT ![t] = "matches"]
    /\ result' = [result EXCEPT ![t] = MatcherMatches(m[t], tmp[t])]
    /\ UNCHANGED <<server, m, r, tmp, via, blk, wait, remain, joinSet, history, fut>>

\* The matcher alone: any prototype against any request.
InitMatch ==
    /\ InitServer
    /\ \E proto \in Objects : m = [t \in Threads |-> IF t = "t1" THEN proto ELSE ProtoAny]
    /\ \E request \in Objects :
          tmp = [t \in Threads |-> IF t = "t1" THEN request ELSE NoItem]

NextMatch == MatchesCall("t1")

SpecMatch == InitMatch /\ [][NextMatch]_vars

\* The reply specs of the responders that raise in reply(): two documents
\* for a command, and the two functions.
RaisingReplies == {ReplyTwo, ReplyFnFalse, ReplyFnTrue}

\* Errors in a worker: a client on c1 that sends ping commands and messages
\* of an unknown opcode, and one test thread that registers
\* autoresponds(Request()) and autoresponds('ping', spec) with a spec whose
\* reply raises, and calls receives().
NextErr ==
    \/ Run("t1")
    \/ Accept("c1")
    \/ ClientSend("c1", DocPing)
    \/ ClientSendOp("c1", BadOpcode)
    \/ WorkerStart("c1")
    \/ WorkerRecv("c1")
    \/ WorkerRecvBad("c1")
    \/ WorkerDispatch("c1")
    \/ Collect("c1")
    \/ Autoresponds("t1", ProtoAny, ReplyNone)
    \/ \E spec \in RaisingReplies : Autoresponds("t1", ProtoPing, spec)
    \/ Receives("t1", ProtoAny)
    \/ Return("t1")

SpecErr == Init /\ [][NextErr]_vars

\* The test goes on calling the server: it returns from each call, and when
\* it has nothing else to do it calls receives().
TestCalls == WF_vars(Receives("t1", ProtoAny)) /\ WF_vars(Return("t1"))

SpecErrFair == SpecErr /\ WorkersRun /\ TestCalls

\* ------------------------------------------------------------- properties

Dispatched == {id \in Ids : dispatched[id] # <<>>}
Req(id) == dispatched[id][1].request
QueuedIds == {LogicalQueue[k].id : k \in 1..Len(LogicalQueue)}
Places(id) == {k \in 1..Len(LogicalQueue) : LogicalQueue[k].id = id}

\* The responders that matched the request when its worker dispatched it.
MatchedAtDispatch(id) ==
    {i \in 1..dispatched[id][1].n : Matches(autoresponders[i].matcher, Req(id))}

\* The responders that match the request and met it: they were registered
\* when it was dispatched, or it was at the queue's head when they were added.
Met(id) ==
    {i \in 1..Len(autoresponders) :
        /\ Matches(autoresponders[i].matcher, Req(id))
        /\ (i <= dispatched[id][1].n \/ regHead[i] = id)}

\* A step in which thread t makes the call named o.
Calls(t, o) == pc[t] = "idle" /\ pc'[t] = "ret" /\ op'[t] = o

\* C1: a request that matches a responder and had nothing queued ahead of it
\* when the responder was added gets exactly one reply, the reply of a
\* responder it met, whether the responder was added before the request was
\* dispatched or found it at the queue's head; such a request is never left
\* in the queue.
C1_RaceAnswered ==
    /\ \A i \in 1..Len(autoresponders) : \A k \in 1..Len(LogicalQueue) :
          Matches(autoresponders[i].matcher, LogicalQueue[k]) =>
             /\ dispatched[LogicalQueue[k].id][1].n < i
             /\ regHead[i] \notin {0, LogicalQueue[k].id}
    /\ \A id \in Dispatched :
          Met(id) # {} =>
             /\ Len(replies[id]) = 1
             /\ replies[id][1].by \in Met(id)
             /\ replies[id][1].docs =
                    CommandReplyDocs(autoresponders[replies[id][1].by].reply)
             /\ id \notin QueuedIds

\* A request was queued with no matching responder, and the responder added
\* next found it at the head and replied; another request was answered by
\* its worker's dispatch.
C1_Witness ==
    /\ \E id \in Dispatched :
          /\ replies[id] # <<>>
          /\ replies[id][1].how = "autoresponds"
          /\ dispatched[id][1].how = "queued"
          /\ regHead[replies[id][1].by] = id
    /\ \E id \in Dispatched :
          /\ replies[id] # <<>>
          /\ replies[id][1].how = "dispatch"

\* C2: a reply sent at dispatch is the reply of the most recently registered
\* responder among those matching the request, and it is the only reply.
C2_MostRecentResponder ==
    \A id \in Dispatched : \A k \in 1..Len(replies[id]) :
        replies[id][k].how = "dispatch" =>
           /\ replies[id][k].by \in MatchedAtDispatch(id)
           /\ \A j \in MatchedAtDispatch(id) : j <= replies[id][k].by
           /\ replies[id][k].docs =
                  CommandReplyDocs(autoresponders[replies[id][k].by].reply)
           /\ Len(replies[id]) = 1

\* Two responders with different replies matched a dispatched request.
C2_Witness ==
    \E id \in Dispatched :
        /\ replies[id] # <<>>
        /\ replies[id][1].how = "dispatch"
        /\ \E i, j \in MatchedAtDispatch(id) :
              /\ i # j
              /\ CommandReplyDocs(autoresponders[i].reply)
                     # CommandReplyDocs(autoresponders[j].reply)

C4_AtMostOneDequeued ==
    [][\A t \in Threads : Calls(t, "autoresponds") =>
          LET head == Head(LogicalQueue)
              i == Len(autoresponders) + 1
          IN /\ autoresponders' =
                    Append(autoresponders, [matcher |-> m'[t], reply |-> r'[t]])
             /\ IF LogicalQueue # <<>> /\ Matches(m'[t], head)
                THEN /\ LogicalQueue' = Tail(LogicalQueue)
                     /\ replies' = [replies EXCEPT ![head.id] =
                            Append(@, [conn |-> head.conn,
                                       docs |-> CommandReplyDocs(r'[t]),
                                       responseTo |-> head.request_id,
                                       by |-> i, how |-> "autoresponds"])]
                     /\ result'[t] = "replied"
                ELSE /\ LogicalQueue' = LogicalQueue
                     /\ replies' = replies
                     /\ result'[t] = "registered"]_vars

\* autoresponds has taken the head and replied while a request was behind it.
C4_Witness ==
    \E t \in Threads :
        /\ pc[t] = "ret"
        /\ op[t] = "autoresponds"
        /\ result[t] = "replied"
        /\ LogicalQueue # <<>>

\* C7: the requests of one connection are in the queue in the order they
\* were sent, ahead of the connection's request in its worker's hands and of
\* those not yet read; and whatever receives has returned from a connection
\* was sent before everything of that connection still in the queue.
C7_ConnectionOrder ==
    /\ \A j, k \in 1..Len(LogicalQueue) :
          (j < k /\ LogicalQueue[j].conn = LogicalQueue[k].conn)
              => LogicalQueue[j].id < LogicalQueue[k].id
    /\ \A k \in 1..Len(LogicalQueue) :
          LET c == LogicalQueue[k].conn
          IN /\ wmsg[c] # NoItem => LogicalQueue[k].id < wmsg[c].id
             /\ \A j \in 1..Len(wire[c]) : LogicalQueue[k].id < wire[c][j].id
    /\ \A id \in Dispatched : \A k \in 1..Len(LogicalQueue) :
          (removed[id] # <<>> /\ Req(id).conn = LogicalQueue[k].conn)
              => id < LogicalQueue[k].id

\* receives has returned a connection's first request while its second one
\* is in the queue.
C7_Witness ==
    \E id \in Dispatched : \E k \in 1..Len(LogicalQueue) :
        /\ removed[id] # <<>>
        /\ removed[id][1].how = "receives"
        /\ Req(id).conn = LogicalQueue[k].conn

\* C8: a call of receives(spec) on a queue that is not empty takes the
\* request at the head, whether or not it matches; it returns that request
\* if it matches spec and raises UnexpectedRequest if it does not.
C8_ReceivesPopsHead ==
    [][\A t \in Threads : (Calls(t, "receives") /\ LogicalQueue # <<>>) =>
          /\ LogicalQueue' = Tail(LogicalQueue)
          /\ tmp'[t] = Head(LogicalQueue)
          /\ result'[t] = IF Matches(m'[t], Head(LogicalQueue))
                          THEN "request" ELSE "unexpected"]_vars

\* receives has raised UnexpectedRequest for the head and left the request
\* behind it in the queue.
C8_Witness ==
    \E t \in Threads :
        /\ pc[t] = "ret"
        /\ op[t] = "receives"
        /\ result[t] = "unexpected"
        /\ LogicalQueue # <<>>

\* A request its worker put on the queue that is nowhere any more: not in
\* _item or the Queue, not in the hands of a call, and taken by no call.
Lost(id) ==
    /\ id \in Dispatched
    /\ dispatched[id][1].how = "queued"
    /\ removed[id] = <<>>
    /\ id \notin QueuedIds
    /\ \A t \in Threads : ~(Inside(t) /\ tmp[t].id = id)

ReturnedBy(id) == {j \in 1..Len(removed[id]) : removed[id][j].how = "receives"}

\* What autoresponds' dequeue-and-reply has to be: each reply it sent went to
\* the request its peek returned, that request matches its matcher, and no
\* receives call has returned that request.
DequeuedWhatItSaw ==
    \A id \in Ids : \A k \in 1..Len(replies[id]) :
        replies[id][k].how = "autoresponds" =>
           /\ regHead[replies[id][k].by] = id
           /\ Matches(autoresponders[replies[id][k].by].matcher, Req(id))
           /\ ReturnedBy(id) = {}

\* C5 (as stated): with receives running on another thread at any time,
\* autoresponds replies to the matching request it saw at the head, which no
\* receives call returns, and to no request that does not match.
C5_AtomicDequeue == DequeuedWhatItSaw

\* C5 (amended): the same, as long as no call of receives or autoresponds
\* has begun while the other thread was inside one.
C5_AtomicWhenAlone == ~overlap => DequeuedWhatItSaw

\* The calls have not overlapped; receives has returned one request on the
\* first thread and autoresponds has replied to another on the second.
C5_Witness ==
    /\ ~overlap
    /\ \E id \in Ids : removed[id] # <<>> /\ removed[id][1] = [how |-> "receives", by |-> "t1"]
    /\ \E id \in Ids : replies[id] # <<>> /\ replies[id][1].how = "autoresponds"
    /\ pc["t2"] = "ret" /\ result["t2"] = "replied"

\* What thread safety of the consumers has to be: no request is returned by
\* two receives calls, and none is lost.
EachReturnedOnce ==
    \A id \in Ids : Cardinality(ReturnedBy(id)) <= 1 /\ ~Lost(id)

\* C6 (as stated): with receives and got called from different threads at
\* any time, every enqueued request is returned by at most one receives call
\* and stays in the queue until a call takes it.
C6_ThreadSafe == EachReturnedOnce

\* C6 (amended): the same, as long as no call of receives or got has begun
\* while the other thread was inside one.
C6_SafeWhenAlone == ~overlap => EachReturnedOnce

\* The calls have not overlapped; receives has returned one request on the
\* first thread, and got on the second thread has found the next one.
C6_Witness ==
    /\ ~overlap
    /\ \E id \in Ids : removed[id] # <<>>
    /\ pc["t2"] = "ret" /\ op["t2"] = "got" /\ result["t2"] \in {"true", "false"}
    /\ item # NoItem

\* The queue as its one consumer finds it: the peeked item, the request a
\* peek has taken from the Queue and not yet stored, and the Queue.
Hand(t) == IF pc[t] = "peek_set" THEN <<tmp[t]>> ELSE <<>>
QueueView == (IF item # NoItem THEN <<item>> ELSE <<>>) \o Hand("t1") \o Hand("t2") \o q

\* C9: got returns true with a matching request at the head, false with one
\* that does not match or with the queue empty at its deadline; and no step
\* of a got call takes anything from the queue: while a got call runs the
\* queue only grows at its back, so receives calls return what they would
\* have returned without it, every request once and in the order of arrival.
C9_GotRemovesNothing ==
    /\ [](\A t \in Threads : (pc[t] = "ret" /\ op[t] = "got") =>
            /\ result[t] \in {"true", "false"}
            /\ result[t] = "true" => (item # NoItem /\ Matches(m[t], item))
            /\ result[t] = "false" =>
                  \/ item # NoItem /\ ~Matches(m[t], item)
                  \/ item = NoItem /\ remain[t] = 0)
    /\ [](\A id \in Ids :
            /\ Len(removed[id]) <= 1
            /\ ~Lost(id)
            /\ removed[id] # <<>> =>
                  \A k \in 1..Len(QueueView) : id < QueueView[k].id)
    /\ [][(\E t \in Threads : op[t] = "got" \/ op'[t] = "got") =>
            \/ QueueView' = QueueView
            \/ \E c \in Conns : QueueView' = Append(QueueView, wmsg[c])]_vars

\* got has returned true for the request at the head after an earlier
\* request was returned by receives.
C9_Witness ==
    /\ pc["t1"] = "ret" /\ op["t1"] = "got" /\ result["t1"] = "true"
    /\ item # NoItem
    /\ \E id \in Ids : removed[id] # <<>>

\* C10: a receives or got call that is waiting when stop() is called waits
\* no longer than one polling interval after it.
C10_StopNoticed ==
    \A t \in Threads : op[t] \in {"receives", "got"} => lateTicks[t] <= POLL

\* stop() has returned normally in thread t.
StopReturned(t) == pc[t] = "ret" /\ op[t] = "stop" /\ result[t] = "stopped"

\* C11: when stop() returns, the stopped flag is set, the listening socket
\* and every accepted connection's socket are closed, also the socket of a
\* connection the accept loop accepted while stop() was running, and the
\* accept thread and every connection worker have exited.
C11_StopClosesAll ==
    \A t \in Threads : StopReturned(t) =>
        /\ stopped
        /\ listening = "closed"
        /\ \A c \in Conns : sock[c] \in {"none", "closed"}
        /\ acceptThread = "done"
        /\ \A c \in Conns : wpc[c] \in {"none", "done"}

\* C12: stop() can be called any number of times, one call after another or
\* at once from two threads: no call ends with an error, and each call that
\* has returned leaves the server stopped with its listening socket closed.
C12_StopIdempotent ==
    \A t \in Threads : (pc[t] = "ret" /\ op[t] = "stop") =>
        /\ result[t] = "stopped"
        /\ stopped
        /\ listening = "closed"

\* The requests the test has hung up on, and their connections.
HungUp == {id \in Ids : \E j \in 1..Len(removed[id]) : removed[id][j].how = "hangup"}
Hung(c) == \E id \in HungUp : Req(id).conn = c
OnWire(id, c) == \E k \in 1..Len(wire[c]) : wire[c][k].id = id

\* What holds from a hangup on: the connection is closed, the request has no
\* reply, the connection's worker is in its loop or has returned from it, and
\* the accept loop and the other connections are as they would be without it.
HangupLeaves ==
    /\ \A id \in HungUp : replies[id] = <<>> /\ sock[Req(id).conn] = "closed"
    /\ \A c \in Conns : Hung(c) =>
          /\ wpc[c] \in {"recv", "dispatch", "done"}
          /\ acceptThread = "running"
          /\ listening = "open"
          /\ lock = "free"
          /\ \A d \in Conns \ {c} :
                /\ sock[d] = "none" => ENABLED Accept(d)
                /\ ~Hung(d) => sock[d] # "closed" /\ wpc[d] # "done"

Surfaced == \E t \in Threads : pc[t] = "ret" /\ result[t] = "worker error"

\* C14: when a worker ends with an error raised in parsing a message or in a
\* responder's reply, its connection is terminated and the error is not
\* swallowed: a later call of the test reports it.
C14_ErrorSurfaced ==
    \A c \in Conns : (wpc[c] = "crashed") ~> (sock[c] = "closed" /\ Surfaced)

\* The matching responders a request met at dispatch that are no functions,
\* and the newest matching one.
PlainAtDispatch(id) ==
    {i \in MatchedAtDispatch(id) : ~MakeDocsRaises(autoresponders[i].reply)}
NewestAtDispatch(id) == Max(MatchedAtDispatch(id))

\* C15: a request whose newest matching responder is a function has been
\* handed to the function.  If the function returns false the request goes on
\* to the next older matching responder, which replies, or to the queue when
\* there is none; if it returns anything else the request is handled: no
\* older responder replies and it never reaches the queue.
C15_CallableResponder ==
    \A id \in Dispatched :
        MatchedAtDispatch(id) # {} =>
            LET d == dispatched[id][1]
                fn == autoresponders[NewestAtDispatch(id)].reply
            IN /\ fn = ReplyFnFalse /\ PlainAtDispatch(id) = {} => d.how = "queued"
               /\ fn = ReplyFnFalse /\ PlainAtDispatch(id) # {} =>
                     /\ d.how = "auto"
                     /\ Len(replies[id]) = 1
                     /\ replies[id][1].by = Max(PlainAtDispatch(id))
               /\ fn = ReplyFnTrue =>
                     /\ d.how = "handled"
                     /\ \A k \in 1..Len(replies[id]) :
                           replies[id][k].by = NewestAtDispatch(id)

\* C16: every reply the server writes, from an autoresponder or from a call
\* of the test, carries as responseTo the request id of the message it
\* answers, whatever the message's opcode, and is written to the connection
\* the message came in on.
C16_ResponseTo ==
    \A id \in Ids : \A k \in 1..Len(replies[id]) :
        /\ replies[id][k].responseTo = id
        /\ replies[id][k].conn = Req(id).conn

\* Replies on both connections, by a responder and by the test, one of them
\* to a message that is no command.
C16_Witness ==
    /\ \E id \in Ids : /\ replies[id] # <<>>
                        /\ replies[id][1].how = "dispatch"
                        /\ Req(id).conn = "c1"
                        /\ Req(id).opcode # OP_QUERY
    /\ \E id \in Ids : /\ replies[id] # <<>>
                        /\ replies[id][1].how = "replies"
                        /\ Req(id).conn = "c2"

\* matches has returned or raised in the test thread: its prototype, its
\* request and its outcome.
Matched == pc["t1"] = "ret" /\ op["t1"] = "matches"
Proto == m["t1"]
Cand == tmp["t1"]
Outcome == result["t1"]

\* C17: matches is true only if the prototype has no documents or as many
\* as the request, and every key of each prototype document is present in
\* the request's document at the same place, with an equal value: an absent
\* key satisfies no pair.  Keys the prototype does not name are allowed.
C17_DocumentGates ==
    (Matched /\ Outcome = "True") =>
        /\ Len(Proto.docs) \in {0, Len(Cand.docs)}
        /\ \A i \in 1..Len(Proto.docs) : \A j \in 1..Len(Proto.docs[i].items) :
              LET kv == Proto.docs[i].items[j]
              IN Has(Cand.docs[i], kv[1]) /\ Get(Cand.docs[i], kv[1]) = kv[2]

\* The request classes a prototype of class pcls may match.
VariantOf(pcls) ==
    CASE pcls = "Request" -> Classes
      [] pcls = "Command" -> {"Command"}
      [] pcls = "OpQuery" -> {"OpQuery", "Command"}
      [] OTHER -> {pcls}

\* C18: a prototype of a request class matches only requests of that
\* class's opcode, a Command prototype only Commands and no other OP_QUERY
\* request; the plain Request prototype matches requests of every class.
C18_VariantGate ==
    Matched =>
        /\ Outcome = "True" => Cand.cls \in VariantOf(Proto.cls)
        /\ Proto = Make("Request", NoAttrs, <<>>) => Outcome = "True"

\* C19: for each of flags, namespace, num_to_skip, num_to_return, fields,
\* cursor_id and cursor_ids, a prototype whose value is not None matches only
\* a request with an equal value.
C19_AttributeGate ==
    (Matched /\ Outcome = "True") =>
        \A n \in AttrNames \ {"request_id"} :
            Proto.attrs[n] # None => Cand.attrs[n] = Proto.attrs[n]

\* seq0 is a subsequence of seq1: its elements are in seq1 in the same order.
IsSubseq(seq0, seq1) ==
    \E f \in [1..Len(seq0) -> 1..Len(seq1)] :
        /\ \A i \in 1..Len(seq0) : seq1[f[i]] = seq0[i]
        /\ \A i \in 1..Len(seq0) : \A j \in 1..Len(seq0) : i < j => f[i] < f[j]

\* matches is true only if each ordered prototype document meets an ordered
\* document whose keys have the prototype's keys as a subsequence; ordered
\* {a, b} against ordered {a, b, c} is true.
OrderedInOrder ==
    /\ Outcome = "True" =>
          \A i \in 1..Len(Proto.docs) :
              Proto.docs[i].ordered =>
                  /\ Cand.docs[i].ordered
                  /\ IsSubseq(KeysOf(Proto.docs[i]), KeysOf(Cand.docs[i]))
    /\ ( /\ Proto = Make("Request", NoAttrs, <<Ordered(ItemsAB)>>)
         /\ Cand = Make("Request", NoAttrs, <<Ordered(ItemsABC)>>) ) => Outcome = "True"

\* C20, as stated: matches always returns a boolean, and is true only if
\* each ordered prototype document meets an ordered document with the
\* prototype's keys as a subsequence of its keys.
C20_AlwaysBoolean ==
    Matched => Outcome \in {"True", "False"} /\ OrderedInOrder

\* C20, amended: matches returns a boolean or raises TypeError; it raises
\* only when an ordered prototype document meets a document that is not
\* ordered, and is true only if each ordered prototype document meets an
\* ordered document with the prototype's keys as a subsequence of its keys.
C20_OrderGate ==
    Matched =>
        /\ Outcome \in {"True", "False", "TypeError"}
        /\ Outcome = "TypeError" =>
              \E i \in 1..Len(Proto.docs) :
                  Proto.docs[i].ordered /\ ~Cand.docs[i].ordered
        /\ OrderedInOrder

C20_Witness ==
    /\ Matched
    /\ Proto.docs = <<Ordered(ItemsAB)>>
    /\ Cand.docs = <<Ordered(ItemsBA)>>
    /\ Outcome = "False"

\* A key without its letter case.
Lower(key) == IF key \in {"IsMaster", "isMaster"} THEN "ismaster" ELSE key

\* Two documents are equal but for the letter case of the first key.
SameButNameCase(doc, other) ==
    /\ doc.ordered = other.ordered
    /\ Len(doc.items) = Len(other.items)
    /\ Len(doc.items) >= 1
    /\ Lower(doc.items[1][1]) = Lower(other.items[1][1])
    /\ doc.items[1][2] = other.items[1][2]
    /\ SubSeq(doc.items, 2, Len(doc.items)) = SubSeq(other.items, 2, Len(other.items))

\* C21: a Command prototype matches a Command whose command name, the first
\* key of its document, differs from the prototype's in letter case only:
\* Matcher(Command('ismaster')).matches(Command('IsMaster')) is true.
C21_NameCaseInsensitive ==
    ( /\ Matched
      /\ Proto.cls = "Command" /\ Cand.cls = "Command"
      /\ Proto.attrs = NoAttrs
      /\ SameButNameCase(Proto.docs[1], Cand.docs[1]) ) => Outcome = "True"

\* The document has the key.
HasKey(doc, key) == \E kv \in doc : kv[1] = key

\* C22: server.replies(spec) on a queued Command whose connection is open
\* sends the single document {ok: 1} when spec has no documents, the one
\* document of spec with ok: 1 added unless it has an ok, and sends nothing
\* and ends with an error when spec has more than one document; with no
\* arguments on a request that is no command, it sends no documents.
C22_CommandReply ==
    [][\A t \in Threads :
          (Calls(t, "replies") /\ tmp'[t] # NoItem /\ sock[tmp'[t].conn] = "open") =>
              LET request == tmp'[t]
                  spec == r'[t]
                  before == replies[request.id]
                  after == replies'[request.id]
                  sent == after[Len(after)]
              IN IF request.opcode # OP_QUERY
                 THEN spec = <<>> =>
                          /\ Len(after) = Len(before) + 1
                          /\ sent.docs = <<>>
                 ELSE IF Len(spec) > 1
                 THEN result'[t] = "error" /\ replies' = replies
                 ELSE /\ result'[t] = "replied"
                      /\ Len(after) = Len(before) + 1
                      /\ Len(sent.docs) = 1
                      /\ sent.conn = request.conn
                      /\ IF spec = <<>> THEN sent.docs[1] = {<<"ok", 1>>}
                         ELSE IF HasKey(spec[1], "ok") THEN sent.docs[1] = spec[1]
                         ELSE sent.docs[1] = spec[1] \cup {<<"ok", 1>>}]_vars

\* A command has been answered by reply({'a': 1}) with {a: 1, ok: 1}, and a
\* reply of two documents to another command has ended with an error.
C22_Witness ==
    /\ \E id \in Ids : /\ replies[id] # <<>>
                       /\ replies[id][1].how = "replies"
                       /\ replies[id][1].docs = <<{<<"a", 1>>, <<"ok", 1>>}>>
    /\ pc["t1"] = "ret" /\ op["t1"] = "replies" /\ r["t1"] = ReplyTwo
    /\ tmp["t1"].opcode = OP_QUERY /\ result["t1"] = "error"

\* The request is an ismaster command, spelled ismaster or isMaster.
IsIsmaster(request) ==
    /\ request.opcode = OP_QUERY
    /\ \E kv \in request.docs[1] : Lower(kv[1]) = "ismaster"

\* C23: on a server made with auto_ismaster, every ismaster command, in
\* either spelling, is answered at dispatch with one document that has
\* ok: 1 (the document given as auto_ismaster, when one was given, with
\* ok: 1) and is never enqueued; on a server made without it the command is
\* enqueued.
C23_AutoIsmaster ==
    \A id \in Dispatched :
        IsIsmaster(Req(id)) =>
            IF autoresponders = <<>>
            THEN dispatched[id][1].how = "queued"
            ELSE /\ dispatched[id][1].how = "auto"
                 /\ id \notin QueuedIds
                 /\ Len(replies[id]) = 1
                 /\ replies[id][1].docs =
                        <<{<<"ok", 1>>} \cup
                          (IF autoresponders[1].reply = <<>> THEN {}
                           ELSE autoresponders[1].reply[1])>>

\* A call of the test has ended with an error raised to the test.
TestFailed == \E t \in Threads : result[t] \in {"error", "timeout"}

\* C24: when a request has sat in the request queue for longer than
\* reply_timeout without a reply, an error has been raised to the test.
C24_ReplyTimeoutEnforced ==
    \A id \in Ids :
        (id \in QueuedIds /\ replies[id] = <<>> /\ waited[id] > ReplyTimeout)
            => TestFailed

\* fn has finished: its thread has ended, which is what the future waits
\* for.
Finished == fut.started /\ ~fut.alive

\* What fn did, as the outcome a call of the future is to give.
FnOutcome ==
    IF fut.fin = "value" THEN [kind |-> "value", val |-> fut.result, err |-> <<>>]
    ELSE [kind |-> "raise", val |-> None, err |-> fut.error]

\* A call of the future by thread t ends in this step.
FutureEnds(t) == pc[t] = "alive_chk" /\ pc'[t] = "ret"

\* C25: a call of the future gives a value or an exception only once fn has
\* finished, and then it gives fn's own value or exception, in every call;
\* it fails with the timeout error when fn has not finished at the end of
\* its wait, and never when fn has finished, so also not in a call made
\* after an earlier one timed out.
C25_FutureOutcome ==
    [][\A t \in Threads : FutureEnds(t) =>
          LET o == fut'.out[t]
          IN /\ fut'.fin = fut.fin /\ fut'.result = fut.result /\ fut'.error = fut.error
             /\ IF Finished THEN o = FnOutcome
                ELSE o = [kind |-> "timeout", val |-> None, err |-> <<>>]]_vars

\* A call of the future has timed out, and a later call, by the other
\* thread, has re-raised fn's exception.
C25_Witness ==
    /\ fut.out["t1"].kind = "timeout"
    /\ fut.out["t2"].kind = "raise"
    /\ fut.out["t2"].err = <<"AssertionError: thrown">>
    /\ pc["t2"] = "ret"

\* The block of thread t ends in this step.
GoingEnds(t) == pc[t] = "exit_join" /\ pc'[t] = "ret"

\* C26: fn runs while the body of the block runs, and the block's exit
\* joins it: a block that ends normally ends after fn has finished.  When
\* the body and fn both raise, the block ends with the body's exception and
\* fn's exception is written to stderr after 'error in going('; every
\* explicit call of the future after that re-raises fn's exception.
C26_GoingBothFail ==
    [][\A t \in Threads :
          /\ GoingEnds(t) =>
                /\ fut'.out[t].kind = "value" => Finished /\ fut.body = "ok"
                /\ (fut.body = "raised" /\ Finished /\ fut.fin = "raise") =>
                      /\ fut'.out[t] = [kind |-> "raise", val |-> None,
                                        err |-> <<BlockError>>]
                      /\ fut'.log = Append(fut.log, [prefix |-> "error in going(",
                                                     err |-> fut.error])
          /\ (FutureEnds(t) /\ fut.body = "raised" /\ fut.fin = "raise" /\ Finished) =>
                /\ fut'.out[t] = FnOutcome
                /\ fut'.error = fut.error]_vars

\* The body and fn have both raised, fn's exception is on stderr, and both
\* threads have called the future since and got fn's exception.
C26_Witness ==
    /\ fut.body = "raised"
    /\ fut.log = <<[prefix |-> "error in going(", err |-> <<"AssertionError: thrown">>]>>
    /\ \A t \in Threads : /\ pc[t] = "ret" /\ op[t] = "future"
                          /\ fut.out[t].err = <<"AssertionError: thrown">>

\* C27: every step of an iteration over the server that yields, yields the
\* request at the head of the queue and takes it off; a step ends with
\* StopIteration only on a stopped server, never while the server runs;
\* and a step taken on a stopped server yields nothing and ends with
\* StopIteration.
C27_Iteration ==
    [][\A t \in Threads : op'[t] = "next" =>
          /\ (result'[t] = "request" /\ result[t] # "request") =>
                /\ LogicalQueue # <<>>
                /\ tmp'[t] = Head(LogicalQueue)
                /\ LogicalQueue' = Tail(LogicalQueue)
                /\ pc'[t] = "ret"
          /\ (result'[t] = "StopIteration" /\ result[t] # "StopIteration") => stopped
          /\ (pc[t] = "rcv_loop" /\ pc'[t] # "rcv_loop" /\ stopped) =>
                result'[t] = "None" /\ LogicalQueue' = LogicalQueue
          /\ (pc[t] = "ret" /\ result[t] = "None") =>
                (pc'[t] = "ret" /\ result'[t] \in {"None", "StopIteration"})]_vars

\* The iteration has yielded the first request and the second, and then,
\* the server stopped, has ended with StopIteration.
C27_Witness ==
    /\ \A id \in Ids : /\ removed[id] # <<>>
                       /\ removed[id][1] = [how |-> "receives", by |-> "t1"]
    /\ stopped
    /\ pc["t1"] = "ret" /\ op["t1"] = "next" /\ result["t1"] = "StopIteration"

\* unpack has returned in the test thread.
Unpacked == pc["t1"] = "ret" /\ op["t1"] = "unpack"

\* C28: an OP_QUERY message is unpacked to a Command whose namespace is the
\* database name exactly when its namespace ends in '.$cmd', and to an
\* OpQuery with the whole namespace otherwise; either way the request's
\* flags are the message's flags.
C28_UnpackQuery ==
    Unpacked =>
        LET msg == m["t1"]
            request == tmp["t1"]
            ns == msg.namespace
        IN /\ IF ns[Len(ns)] = "$cmd"
              THEN /\ request.cls = "Command"
                   /\ request.namespace = <<SubSeq(ns, 1, Len(ns) - 1)>>
              ELSE /\ request.cls = "OpQuery"
                   /\ request.namespace = <<ns>>
           /\ request.flags = <<msg.flags>>

\* The number of messages the clients have sent that no worker has read.
RECURSIVE OnWires(_)
OnWires(S) ==
    IF S = {} THEN 0
    ELSE LET c == CHOOSE x \in S : TRUE IN Len(wire[c]) + OnWires(S \ {c})

\* The workers that hold a request they have unpacked and not yet counted,
\* waiting for the lock, and the workers that failed to unpack a message.
InHand == {c \in Conns : wmsg[c] # NoItem}
FailedToParse == {c \in Conns : wpc[c] = "crashed"}

\* C29: requests_count is the number of messages the workers have read and
\* unpacked and brought back under the lock, each counted once, whatever
\* the interleaving of the connections, whether the request is then
\* answered by a responder or enqueued; a message that is not read, or whose
\* unpacking fails, is not counted.
C29_RequestsCount ==
    /\ requestsCount = (nextId - 1) - OnWires(Conns) - Cardinality(InHand)
                           - Cardinality(FailedToParse)
    /\ requestsCount = Cardinality(Dispatched)
    /\ \A id \in Ids : Len(dispatched[id]) <= 1

\* Both connections' requests have been counted, one answered by the
\* responder and one enqueued.
C29_Witness ==
    /\ requestsCount = 2
    /\ \E id \in Dispatched : dispatched[id][1].how = "auto" /\ Req(id).conn = "c1"
    /\ \E id \in Dispatched : dispatched[id][1].how = "queued" /\ Req(id).conn = "c2"

\* C30: a call made on a server that ran and was stopped returns None if it
\* is receives,
\* and ends with an error if it is got, replies, fail, command_err or
\* hangup.
C30_StoppedCalls ==
    \A t \in Threads :
        (pc[t] = "ret" /\ stopped /\ listening = "closed") =>
            /\ op[t] = "receives" => result[t] = "None"
            /\ op[t] \in {"got"} \cup PopOps => result[t] = "error"


\* ------------------------------------------ the lock, statement by statement
\* The worker and stop() with every acquire and release of _lock a step of
\* its own.  Lock.acquire waits until the lock is free; Lock.release frees
\* it whoever holds it; no statement tests who holds the lock, so only the
\* acquires have the lock in their guards.

\* The client closes its end of the connection: between two frames (id 0),
\* or after the header and none or a part of the body of the frame id.  The
\* worker's recv returns what was sent and then b''.
Cut(id, c) == [id |-> id, conn |-> c, opcode |-> None, docs |-> <<>>, cut |-> TRUE]
IsCut(msg) == "cut" \in DOMAIN msg
HalfClosed(c) == wire[c] # <<>> /\ IsCut(wire[c][Len(wire[c])])

ClientClose(c, partial) ==
    /\ sock[c] = "open"
    /\ ~HalfClosed(c)
    /\ partial => nextId <= MaxReqs
    /\ wire' = [wire EXCEPT ![c] = Append(@, Cut(IF partial THEN nextId ELSE 0, c))]
    /\ nextId' = IF partial THEN nextId + 1 ELSE nextId
    /\ UNCHANGED <<lock, life, autoresponders, q, item, requestsCount, sock, wpc,
                   wmsg, locals, dispatched, replies, removed, regHead, lateTicks,
                   overlap, waited, fut>>

\* _synchronized, "with self._lock:", in the worker thread.
LoopEnter(c) ==
    /\ wpc[c] = "start"
    /\ lock = "free"
    /\ lock' = c
    /\ wpc' = [wpc EXCEPT ![c] = "while"]
    /\ UNCHANGED <<life, autoresponders, q, item, requestsCount, net, wmsg, locals,
                   history, fut>>

\* A variant that goes to the read without releasing the lock.
LoopWhileHolding(c) ==
    /\ wpc[c] = "while"
    /\ wpc' = [wpc EXCEPT ![c] = IF stopped THEN "close" ELSE "recv"]
    /\ UNCHANGED <<lock, life, autoresponders, q, item, requestsCount, net, wmsg,
                   locals, history, fut>>

\* "while not self._stopped:", and on into "with self._unlock():", which
\* releases the lock for the read; or out of the loop to client.close().
LoopWhile(c) ==
    /\ wpc[c] = "while"
    /\ IF stopped
       THEN /\ wpc' = [wpc EXCEPT ![c] = "close"]
            /\ lock' = lock
       ELSE /\ wpc' = [wpc EXCEPT ![c] = "recv"]
            /\ lock' = "free"
    /\ UNCHANGED <<life, autoresponders, q, item, requestsCount, net, wmsg, locals,
                   history, fut>>

\* A variant that takes what the closing client left for a frame.
LoopRecvPartial(c) ==
    /\ wpc[c] = "recv"
    /\ IF sock[c] = "closed"
       THEN /\ wpc' = [wpc EXCEPT ![c] = "relock_reset"]
            /\ UNCHANGED <<wire, wmsg>>
       ELSE /\ wire[c] # <<>>
            /\ wire' = [wire EXCEPT ![c] = Tail(@)]
            /\ LET msg == Head(wire[c])
               IN IF msg.opcode \in OPCODES
                  THEN /\ wpc' = [wpc EXCEPT ![c] = "relock"]
                       /\ wmsg' = [wmsg EXCEPT ![c] = Unpack(msg)]
                  ELSE /\ wpc' = [wpc EXCEPT ![c] = "relock_bad"]
                       /\ wmsg' = wmsg
    /\ UNCHANGED <<lock, life, autoresponders, q, item, requestsCount, sock, locals,
                   history, fut>>

\* mock_server_receive_request: the read returns a whole frame, which is
\* unpacked or whose opcode is unknown (NotImplementedError), or it ends in
\* a socket.error: ECONNRESET as the client has closed its end before the
\* frame is whole, EBADF as the socket has been closed on this side.  Either
\* way the next statement is the acquire in _unlock's finally.
LoopRecv(c) ==
    /\ wpc[c] = "recv"
    /\ IF sock[c] = "closed"
       THEN /\ wpc' = [wpc EXCEPT ![c] = "relock_reset"]
            /\ UNCHANGED <<wire, wmsg>>
       ELSE /\ wire[c] # <<>>
            /\ wire' = [wire EXCEPT ![c] = Tail(@)]
            /\ LET msg == Head(wire[c])
               IN IF IsCut(msg)
                  THEN /\ wpc' = [wpc EXCEPT ![c] = "relock_reset"]
                       /\ wmsg' = wmsg
                  ELSE IF msg.opcode \in OPCODES
                  THEN /\ wpc' = [wpc EXCEPT ![c] = "relock"]
                       /\ wmsg' = [wmsg EXCEPT ![c] = Unpack(msg)]
                  ELSE /\ wpc' = [wpc EXCEPT ![c] = "relock_bad"]
                       /\ wmsg' = wmsg
    /\ UNCHANGED <<lock, life, autoresponders, q, item, requestsCount, sock, locals,
                   history, fut>>

\* _unlock's finally, "self._lock.acquire()"; then the statement after the
\* with, the handler of socket.error (break), or the exception on its way
\* out of _server_loop.
LoopRelock(c) ==
    /\ wpc[c] \in {"relock", "relock_reset", "relock_bad"}
    /\ lock = "free"
    /\ lock' = c
    /\ wpc' = [wpc EXCEPT ![c] = CASE wpc[c] = "relock" -> "count"
                                   [] wpc[c] = "relock_reset" -> "close"
                                   [] wpc[c] = "relock_bad" -> "raise"]
    /\ UNCHANGED <<life, autoresponders, q, item, requestsCount, net, wmsg, locals,
                   history, fut>>

\* "self._requests_count += 1".
LoopCount(c) ==
    /\ wpc[c] = "count"
    /\ requestsCount' = requestsCount + 1
    /\ wpc' = [wpc EXCEPT ![c] = "match"]
    /\ UNCHANGED <<lock, life, autoresponders, q, item, net, wmsg, locals, history,
                   fut>>


\* The loop over reversed(self._autoresponders): reply from the most
\* recently added matching responder, or put the request on the queue, and
\* back to the loop test.  A reply that raises a socket.error (the socket
\* has been closed) breaks out of the loop; one that raises anything else
\* leaves _server_loop with the exception.
LoopDispatch(c) ==
    /\ wpc[c] = "match"
    /\ LET request == wmsg[c]
           i == ResponderFor(request)
           entry(how) == [dispatched EXCEPT ![request.id] =
                             Append(@, [n |-> Len(autoresponders), how |-> how,
                                        request |-> request])]
       IN /\ wmsg' = [wmsg EXCEPT ![c] = NoItem]
          /\ IF i # 0 /\ ReplyRaises(request, autoresponders[i].reply)
             THEN /\ dispatched' = entry("error")
                  /\ wpc' = [wpc EXCEPT ![c] = "raise"]
                  /\ UNCHANGED <<q, replies, autoresponders>>
             ELSE IF i # 0
             THEN /\ autoresponders' = [autoresponders EXCEPT ![i].reply =
                                            SpecAfterReply(request, @)]
                  /\ q' = q
                  /\ IF sock[c] = "open"
                     THEN /\ replies' = Sent(request, autoresponders[i].reply, i, "dispatch")
                          /\ dispatched' = entry("auto")
                          /\ wpc' = [wpc EXCEPT ![c] = "while"]
                     ELSE /\ replies' = replies
                          /\ dispatched' = entry("sendfail")
                          /\ wpc' = [wpc EXCEPT ![c] = "close"]
             ELSE /\ q' = QueuePut(q, request)
                  /\ dispatched' = entry("queued")
                  /\ wpc' = [wpc EXCEPT ![c] = "while"]
                  /\ UNCHANGED <<replies, autoresponders>>
    /\ UNCHANGED <<lock, life, item, requestsCount, net, locals, nextId, removed,
                   regHead, lateTicks, overlap, waited, fut>>

\* A variant that closes the socket and returns without leaving the with
\* block's lock.
LoopCloseHolding(c) ==
    /\ wpc[c] = "close"
    /\ sock' = [sock EXCEPT ![c] = "closed"]
    /\ wpc' = [wpc EXCEPT ![c] = "done"]
    /\ UNCHANGED <<lock, life, autoresponders, q, item, requestsCount, wire, wmsg,
                   locals, history, fut>>

\* After the loop: "client.close()", and the return through the end of
\* "with self._lock", which releases the lock.
LoopClose(c) ==
    /\ wpc[c] = "close"
    /\ sock' = [sock EXCEPT ![c] = "closed"]
    /\ wpc' = [wpc EXCEPT ![c] = "done"]
    /\ lock' = "free"
    /\ UNCHANGED <<life, autoresponders, q, item, requestsCount, wire, wmsg, locals,
                   history, fut>>

\* An exception that no handler of _server_loop takes leaves through the end
\* of "with self._lock", which releases the lock, and ends the thread;
\* client.close() is not reached.
LoopRaise(c) ==
    /\ wpc[c] = "raise"
    /\ wpc' = [wpc EXCEPT ![c] = "crashed"]
    /\ lock' = "free"
    /\ UNCHANGED <<life, autoresponders, q, item, requestsCount, net, wmsg, locals,
                   history, fut>>

\* stop(), _synchronized: "with self._lock:".
StopEnter(t) ==
    /\ pc[t] = "idle"
    /\ lock = "free"
    /\ lock' = t
    /\ pc' = [pc EXCEPT ![t] = "stop_body"]
    /\ op' = [op EXCEPT ![t] = "stop"]
    /\ UNCHANGED <<life, autoresponders, q, item, requestsCount, net, wpc, wmsg, m,
                   r, tmp, via, blk, wait, remain, result, joinSet, history, fut>>

\* stop(), from "self._stopped = True" to the release in _unlock before the
\* joins.  On a server that was never run "self._listening_sock.close()"
\* raises AttributeError, which leaves through the end of "with self._lock".
StopBody(t) ==
    /\ pc[t] = "stop_body"
    /\ stopped' = TRUE
    /\ lock' = "free"
    /\ IF listening = "none"
       THEN /\ pc' = [pc EXCEPT ![t] = "ret"]
            /\ result' = [result EXCEPT ![t] = "error"]
            /\ UNCHANGED <<listening, sock, joinSet>>
       ELSE /\ listening' = "closed"
            /\ sock' = [c \in Conns |-> IF sock[c] = "open" THEN "closed" ELSE sock[c]]
            /\ joinSet' = [joinSet EXCEPT ![t] =
                   {"accept"} \cup {c \in Conns : wpc[c] # "none"}]
            /\ pc' = [pc EXCEPT ![t] = "stop_join"]
            /\ result' = result
    /\ UNCHANGED <<acceptThread, autoresponders, q, item, requestsCount, wire, wpc,
                   wmsg, op, m, r, tmp, via, blk, wait, remain, history, fut>>

\* The worker of connection c, statement by statement.
LoopSteps(c) ==
    \/ LoopEnter(c)
    \/ LoopWhile(c)
    \/ LoopRecv(c)
    \/ LoopRelock(c)
    \/ LoopCount(c)
    \/ LoopDispatch(c)
    \/ LoopClose(c)
    \/ LoopRaise(c)

\* "running", _synchronized: whether the server is started and not stopped.
Running(t) ==
    /\ pc[t] = "idle"
    /\ lock = "free"
    /\ pc' = [pc EXCEPT ![t] = "ret"]
    /\ op' = [op EXCEPT ![t] = "running"]
    /\ result' = [result EXCEPT ![t] =
           IF acceptThread # "none" /\ ~stopped THEN "true" ELSE "false"]
    /\ UNCHANGED <<server, m, r, tmp, via, blk, wait, remain, joinSet, history, fut>>

\* The lock: a client on c1 that sends ping commands and one on c2 that
\* sends foo commands and messages of an unknown opcode, one test thread
\* that runs the server, registers autoresponds('ping') and reads running,
\* and a second one that calls stop().
NextLock ==
    \/ Run("t1")
    \/ \E c \in Conns : Accept(c)
    \/ AcceptExit
    \/ ClientSend("c1", DocPing)
    \/ ClientSend("c2", DocFoo)
    \/ ClientSendOp("c2", BadOpcode)
    \/ \E c \in Conns : LoopSteps(c)
    \/ AutorespondsCall("t1", ProtoPing, ReplyNone)
    \/ QueueSteps("t1")
    \/ Running("t1")
    \/ Return("t1")
    \/ StopEnter("t2")
    \/ StopBody("t2")
    \/ StopJoin("t2")
    \/ Return("t2")

SpecLock == Init /\ [][NextLock]_vars


\* Connection resets: clients that send ping commands and a message of an
\* unknown opcode and close their ends between two frames or in the middle
\* of one, one test thread that hangs up on the requests it pops, and a
\* second one that calls stop().
NextReset ==
    \/ Run("t1")
    \/ \E c \in Conns : Accept(c)
    \/ AcceptExit
    \/ \E c \in Conns : ~HalfClosed(c) /\ ClientSend(c, DocPing)
    \/ ~HalfClosed("c2") /\ ClientSendOp("c2", BadOpcode)
    \/ \E c \in Conns, partial \in BOOLEAN : ClientClose(c, partial)
    \/ \E c \in Conns : LoopSteps(c)
    \/ Hangup("t1")
    \/ Return("t1")
    \/ StopEnter("t2")
    \/ StopBody("t2")
    \/ StopJoin("t2")
    \/ Return("t2")

SpecReset == Init /\ [][NextReset]_vars

\* ------------------------------------------------- properties of the lock

\* The worker of c is waiting for client bytes: it is in its read and
\* nothing has arrived.
Idle(c) == wpc[c] = "recv" /\ sock[c] = "open" /\ wire[c] = <<>>

\* The worker of c takes a step.
Steps(c) == wpc'[c] # wpc[c]

\* C31: a worker never holds the lock while it is in its read, and holds it
\* in every step that increments the counter, evaluates the matchers, sends
\* a responder's reply or enqueues; so whenever every connection's worker
\* is waiting for client bytes the lock is free or held by a test thread
\* that is inside run, stop, autoresponds or running and will release it.
C31_LockAcrossRead ==
    [][\A c \in Conns :
          /\ wpc'[c] = "recv" => lock' # c
          /\ (Steps(c) /\ wpc[c] \in {"count", "match"}) => lock = c
          /\ requestsCount' # requestsCount => \E d \in Conns : Steps(d) /\ lock = d
          /\ (q' # q /\ Len(q') > Len(q)) => \E d \in Conns : Steps(d) /\ lock = d
          /\ (\A d \in Conns : wpc'[d] = "recv") =>
                \/ lock' = "free"
                \/ lock' \in Threads /\ pc'[lock'] \notin {"idle", "ret", "stop_join"}
      ]_vars

\* Both workers wait for client bytes, after one request was answered by
\* the responder and one was enqueued, and autoresponds has just returned
\* from a call made meanwhile.
C31_Witness ==
    /\ \A c \in Conns : Idle(c)
    /\ \E id \in Ids : dispatched[id] # <<>> /\ dispatched[id][1].how = "auto"
    /\ \E id \in Ids : dispatched[id] # <<>> /\ dispatched[id][1].how = "queued"
    /\ pc["t1"] = "ret" /\ op["t1"] = "autoresponds"
    /\ Len(autoresponders) = 2
    /\ lock = "free"


\* C32: every read or write of the autoresponder list, of _stopped and
\* _accept_thread, and of the registries of sockets and threads is a step of
\* a thread that holds the lock: the accept loop registering a connection
\* and testing _stopped, stop() setting _stopped and listing the registries,
\* autoresponds appending, and the worker testing _stopped and going through
\* the responders.
C32_GuardedAccess ==
    [][/\ \A c \in Conns : (wpc[c] = "none" /\ wpc'[c] = "start") => lock = "accept"
       /\ (acceptThread = "running" /\ acceptThread' = "done") => lock = "accept"
       /\ stopped' # stopped => lock \in Threads
       /\ \A t \in Threads : (joinSet[t] = {} /\ joinSet'[t] # {}) => lock = t
       /\ Len(autoresponders') > Len(autoresponders) => lock' \in Threads
       /\ \A c \in Conns : (Steps(c) /\ wpc[c] \in {"while", "match"}) => lock = c
      ]_vars


\* ------------------------------------------------- the queue's one consumer
\* Two producers and one consumer: clients on two connections whose workers
\* put their requests on the queue, and one test thread that peeks with
\* got() and gets with receives(), statement by statement, with a timeout
\* of 0 or MaxTimeout polling intervals.
NextQueue ==
    \/ Run("t1")
    \/ \E c \in Conns : Accept(c)
    \/ ClientSend("c1", DocPing)
    \/ ClientSend("c2", DocFoo)
    \/ \E c \in Conns : WorkerStart(c)
    \/ \E c \in Conns : WorkerRecv(c)
    \/ \E c \in Conns : WorkerDispatch(c)
    \/ \E T \in Timeouts : ReceivesCall("t1", ProtoAny, T)
    \/ RcvLoop("t1")
    \/ \E T \in Timeouts : GotCall("t1", ProtoAny, T)
    \/ GotLoop("t1")
    \/ QueueSteps("t1")
    \/ Tick
    \/ Return("t1")

SpecQueue == Init /\ [][NextQueue]_vars

\* A call of thread t returns in this step.
Returns(t, call) == pc[t] # "ret" /\ pc'[t] = "ret" /\ op[t] = call

\* C33: with one consumer, every step leaves the queue as it is, puts one
\* value at its back, or is the return of a get that takes the value at its
\* front and returns it, once; a peek returns the value at the front and
\* leaves it there.  So the values get returns are, in order, a prefix of
\* the values put, none is returned twice or dropped, and peeks return what
\* the next get returns, whatever is put in between.
C33_FifoLossless ==
    [][/\ \/ QueueView' = QueueView
          \/ \E c \in Conns : QueueView' = Append(QueueView, wmsg[c])
          \/ /\ QueueView # <<>>
             /\ QueueView' = Tail(QueueView)
             /\ \E t \in Threads :
                   /\ Returns(t, "receives")
                   /\ tmp'[t] = Head(QueueView)
                   /\ removed'[Head(QueueView).id] = <<[how |-> "receives", by |-> t]>>
       /\ \A t \in Threads :
             (Returns(t, "receives") /\ result'[t] = "request") =>
                 QueueView # <<>> /\ QueueView' = Tail(QueueView)
       /\ \A t \in Threads :
             (Returns(t, "got") /\ result'[t] = "true") =>
                 /\ QueueView' = QueueView
                 /\ QueueView # <<>>
                 /\ tmp'[t] = Head(QueueView)
                 /\ item' = Head(QueueView)
      ]_vars

\* get is about to return the value an earlier peek left in _item, with a
\* value put behind it since.
C33_Witness ==
    /\ pc["t1"] = "get_clr"
    /\ via["t1"] = "receives"
    /\ item # NoItem
    /\ tmp["t1"] = item
    /\ q # <<>>


\* ------------------------------------------------------- reading a frame
\* Bytes are numbers in 0..255.  struct '<i': four bytes, least significant
\* first, read back as a signed number.
PackInt(n) ==
    <<n % 256, (n \div 256) % 256, (n \div 65536) % 256, (n \div 16777216) % 256>>
UnpackInt(b) ==
    b[1] + 256 * b[2] + 65536 * b[3]
        + 16777216 * (IF b[4] >= 128 THEN b[4] - 256 ELSE b[4])

\* The header's length.
HeaderLength == 16

\* The frame a client writes: messageLength, requestID, responseTo and
\* opCode, then the body.
FrameBytes(f) ==
    PackInt(HeaderLength + Len(f.body)) \o PackInt(f.request_id) \o PackInt(0)
        \o PackInt(f.opcode) \o f.body

\* The frames the clients send: any request id, two opcodes, and a body of
\* no bytes, or of bytes that read as a header's start.
Bodies == {<<>>, <<16, 0, 0>>}
Frames == [request_id : Ids, opcode : {OP_QUERY, OP_GET_MORE}, body : Bodies]
FrameLists == UNION {[1..n -> Frames] : n \in 1..MaxReqs}

RECURSIVE StreamOf(_)
StreamOf(fs) == IF fs = <<>> THEN <<>> ELSE FrameBytes(Head(fs)) \o StreamOf(Tail(fs))

\* What the client has sent when it closes: all the frames, or all but the
\* last byte, or but the last frame's whole body and a header byte.
Cuts == {0, 1, 4}
Streams ==
    {[frames |-> fs, bytes |-> SubSeq(StreamOf(fs), 1, Len(StreamOf(fs)) - k)] :
        fs \in FrameLists, k \in Cuts}

\* The sizes of the chunks recv returns when more bytes are there: one byte,
\* seven, or all that was asked for.
ChunkSizes(length) == {1, 7, length}

\* The reader before its first read: nothing consumed, nothing built.
NoRead == [at |-> "call", pos |-> 0, length |-> 0, msg |-> <<>>, header |-> <<>>,
           requests |-> <<>>]

\* mock_server_receive(sock, length), up to its loop: msg = b''.  The
\* first call reads the header, the second the body, whose length is
\* messageLength less the header's.
ReceiveCall(t) ==
    /\ tmp[t].at \in {"call", "header"}
    /\ tmp[t].at = "header" => tmp[t].length = 0
    /\ LET rd == tmp[t]
       IN tmp' = [tmp EXCEPT ![t] =
              IF rd.at = "call"
              THEN [rd EXCEPT !.at = "header", !.length = HeaderLength, !.msg = <<>>]
              ELSE [rd EXCEPT !.at = "body", !.header = rd.msg,
                              !.length = UnpackInt(SubSeq(rd.msg, 1, 4)) - HeaderLength,
                              !.msg = <<>>]]
    /\ UNCHANGED <<server, pc, op, m, r, via, blk, wait, remain, result, joinSet,
                   history, fut>>

\* A variant of the loop's step that takes a chunk as the socket has it,
\* beyond the length asked for.
ReceiveChunkBeyond(t, n) ==
    /\ tmp[t].at \in {"header", "body"}
    /\ tmp[t].length > 0
    /\ LET rd == tmp[t]
           have == Len(m[t].bytes) - rd.pos
           got == IF n < have THEN n ELSE have
       IN tmp' = [tmp EXCEPT ![t] =
              IF have = 0 THEN [rd EXCEPT !.at = "reset"]
              ELSE [rd EXCEPT !.pos = rd.pos + got,
                              !.length = IF rd.length > got THEN rd.length - got ELSE 0,
                              !.msg = rd.msg \o SubSeq(m[t].bytes, rd.pos + 1, rd.pos + got)]]
    /\ UNCHANGED <<server, pc, op, m, r, via, blk, wait, remain, result, joinSet,
                   history, fut>>

\* "while length: chunk = sock.recv(length)": recv returns at most length
\* bytes, and b'' once the client has closed and nothing is left, which
\* raises socket.error(ECONNRESET); "length -= len(chunk); msg += chunk".
ReceiveChunk(t, n) ==
    /\ tmp[t].at \in {"header", "body"}
    /\ tmp[t].length > 0
    /\ LET rd == tmp[t]
           have == Len(m[t].bytes) - rd.pos
           most == IF n < rd.length THEN n ELSE rd.length
           got == IF most < have THEN most ELSE have
       IN tmp' = [tmp EXCEPT ![t] =
              IF have = 0 THEN [rd EXCEPT !.at = "reset"]
              ELSE [rd EXCEPT !.pos = rd.pos + got, !.length = rd.length - got,
                              !.msg = rd.msg \o SubSeq(m[t].bytes, rd.pos + 1, rd.pos + got)]]
    /\ UNCHANGED <<server, pc, op, m, r, via, blk, wait, remain, result, joinSet,
                   history, fut>>

\* mock_server_receive_request, after the body: the request is unpacked
\* from the body's bytes with the header's request id and opcode.
ReceiveRequest(t) ==
    /\ tmp[t].at = "body"
    /\ tmp[t].length = 0
    /\ LET rd == tmp[t]
       IN tmp' = [tmp EXCEPT ![t] =
              [rd EXCEPT !.at = "call",
                         !.requests = Append(rd.requests,
                             [request_id |-> UnpackInt(SubSeq(rd.header, 5, 8)),
                              opcode |-> UnpackInt(SubSeq(rd.header, 13, 16)),
                              body |-> rd.msg])]]
    /\ UNCHANGED <<server, pc, op, m, r, via, blk, wait, remain, result, joinSet,
                   history, fut>>

\* Reading alone: the stream a client has sent is in m[t], the reader's
\* state in tmp[t].
InitFrames ==
    /\ InitServer
    /\ \E st \in Streams : m = [t \in Threads |-> IF t = "t1" THEN st ELSE ProtoAny]
    /\ tmp = [t \in Threads |-> IF t = "t1" THEN NoRead ELSE NoItem]

NextFrames ==
    \/ ReceiveCall("t1")
    \/ \E n \in ChunkSizes(tmp["t1"].length) : ReceiveChunk("t1", n)
    \/ ReceiveRequest("t1")

SpecFrames == InitFrames /\ [][NextFrames]_vars

\* The bytes of the first k frames.
RECURSIVE BytesOf(_, _)
BytesOf(fs, k) == IF k = 0 THEN 0 ELSE Len(FrameBytes(fs[k])) + BytesOf(fs, k - 1)

\* C34: between two frames the reader has consumed exactly the bytes of the
\* frames it has built requests from, the k-th request has the request id,
\* the opcode and the body of the k-th frame sent, and within a frame it has
\* consumed no byte beyond that frame, however recv cuts the stream.
C34_FrameBytes ==
    LET rd == tmp["t1"]
        fs == m["t1"].frames
        k == Len(rd.requests)
    IN /\ k <= Len(fs)
       /\ \A j \in 1..k : rd.requests[j] = fs[j]
       /\ rd.at = "call" => rd.pos = BytesOf(fs, k)
       /\ rd.at \in {"header", "body", "reset"} =>
             /\ rd.pos >= BytesOf(fs, k)
             /\ rd.pos <= IF k < Len(fs) THEN BytesOf(fs, k + 1) ELSE BytesOf(fs, k)
       /\ rd.at = "body" =>
             /\ k < Len(fs)
             /\ rd.pos + rd.length = BytesOf(fs, k + 1)

\* The second frame's request has been built after a first frame with a
\* body, from a stream that recv cut inside both headers.
C34_Witness ==
    LET rd == tmp["t1"]
    IN /\ Len(rd.requests) = 2
       /\ rd.requests[1].body # <<>>
       /\ rd.requests[1].request_id # rd.requests[2].request_id
       /\ rd.requests[2].opcode = OP_GET_MORE
       /\ rd.requests[1].opcode = OP_QUERY


\* The read of worker c ends in a socket.error: its socket has been closed,
\* or the client has closed its end before the next frame is whole.
ReadFails(c) ==
    /\ wpc[c] = "recv"
    /\ sock[c] = "closed" \/ (wire[c] # <<>> /\ IsCut(Head(wire[c])))

\* C35: when the client closes before a frame is whole, or the socket has
\* been closed by stop() or hangup(), the worker's read ends in a connection
\* reset: the step builds, counts, dispatches and enqueues nothing, the
\* worker goes on to close its socket and return, raising nothing, and it
\* has released the lock when it has returned.
C35_ResetIsClean ==
    /\ [][\A c \in Conns :
            /\ (Steps(c) /\ ReadFails(c)) =>
                  /\ wpc'[c] = "relock_reset"
                  /\ wmsg' = wmsg
                  /\ requestsCount' = requestsCount
                  /\ dispatched' = dispatched
                  /\ q' = q
            /\ (Steps(c) /\ wpc[c] = "relock_reset") => wpc'[c] = "close"
            /\ (Steps(c) /\ wpc[c] = "close") =>
                  wpc'[c] = "done" /\ sock'[c] = "closed" /\ lock' = "free"
         ]_vars
    /\ [](\A c \in Conns :
            /\ wpc[c] = "done" => sock[c] = "closed" /\ lock # c
            /\ wmsg[c] # NoItem => wmsg[c].opcode = OP_QUERY
            /\ \A id \in Ids : dispatched[id] # <<>> =>
                   dispatched[id][1].request.opcode = OP_QUERY)

\* The worker of c1 has returned after its client closed in the middle of a
\* frame: the server is not stopped, nothing was hung up, and a request id
\* that the client used is in no queue, no worker's hands and no wire.
C35_Witness ==
    /\ wpc["c1"] = "done"
    /\ sock["c1"] = "closed"
    /\ ~stopped
    /\ lock = "free"
    /\ \A id \in Ids : removed[id] = <<>>
    /\ \A c \in Conns : wire[c] = <<>> /\ wmsg[c] = NoItem /\ wpc[c] # "crashed"
    /\ \A c \in Conns : wpc[c] \notin {"relock_bad", "raise"}
    /\ \E id \in Ids : id < nextId /\ dispatched[id] = <<>>
    /\ requestsCount = 1


\* Unknown opcodes: a client on c1 that sends ping commands, a client on c2
\* that sends foo commands and messages of an unknown opcode, and a test
\* thread that runs the server, registers autoresponds('ping') and hangs up
\* on the requests it pops.  A dead worker's socket is closed when nothing holds it.
NextBad ==
    \/ Run("t1")
    \/ \E c \in Conns : Accept(c)
    \/ ClientSend("c1", DocPing)
    \/ ClientSend("c2", DocFoo)
    \/ ClientSendOp("c2", BadOpcode)
    \/ \E c \in Conns : LoopSteps(c)
    \/ \E c \in Conns : Collect(c)
    \/ Autoresponds("t1", ProtoPing, ReplyNone)
    \/ Hangup("t1")
    \/ Return("t1")

SpecBad == Init /\ [][NextBad]_vars

\* The workers are threads of their own and take the steps they can take; a
\* socket that nothing holds is collected; a call that has ended returns.
BadFairness ==
    /\ \A c \in Conns : WF_vars(LoopSteps(c)) /\ WF_vars(Collect(c))
    /\ WF_vars(Return("t1"))

SpecBadFair == SpecBad /\ BadFairness

\* The read of worker c returns a frame whose opcode is not in OPCODES.
ReadsUnknown(c) ==
    /\ wpc[c] = "recv"
    /\ sock[c] = "open"
    /\ wire[c] # <<>>
    /\ ~IsCut(Head(wire[c]))
    /\ Head(wire[c]).opcode \notin OPCODES

\* C36: a message of an unknown opcode is not counted, dispatched or
\* enqueued; its worker ends and has released the lock when it has ended;
\* and its connection is terminated: the worker has exited and the
\* connection's socket is closed.
C36_UnknownOpcode ==
    /\ [][\A c \in Conns : (Steps(c) /\ ReadsUnknown(c)) =>
              /\ wpc'[c] = "relock_bad"
              /\ UNCHANGED <<wmsg, requestsCount, dispatched, q>>]_vars
    /\ [](\A c \in Conns : wpc[c] = "crashed" => lock # c)
    /\ \A c \in Conns :
          (wpc[c] = "relock_bad") ~> (wpc[c] = "crashed" /\ sock[c] = "closed")


\* Reply specs in use: a test thread registers autoresponds(Request(),
\* {'a': 1}), a responder for every request whose reply is a positional
\* document, and autoresponds('ping', ok=0, errmsg='bad'), whose reply is
\* keyword arguments; clients send ping commands and OP_INSERT messages.
NextSame ==
    \/ Run("t1")
    \/ \E c \in Conns : Accept(c)
    \/ \E c \in Conns : ClientSend(c, DocPing)
    \/ \E c \in Conns : ClientSendOp(c, OP_INSERT)
    \/ \E c \in Conns : WorkerStart(c)
    \/ \E c \in Conns : WorkerRecv(c)
    \/ \E c \in Conns : WorkerDispatch(c)
    \/ Autoresponds("t1", ProtoAny, ReplyA)
    \/ Autoresponds("t1", ProtoPing, ReplyBad)
    \/ Return("t1")

SpecSame == Init /\ [][NextSame]_vars

\* C37: a reply sent from a responder leaves the reply spec of every
\* registered responder as it was registered, so what a responder sends for
\* a request is the same whatever it answered before.
C37_ReplySpecKept ==
    [][\A i \in 1..Len(autoresponders) :
          /\ i <= Len(autoresponders')
          /\ autoresponders'[i].reply = autoresponders[i].reply]_vars


\* The lock with replies that fail: as above, but the test thread registers
\* autoresponds('ping', {'a': 1}, {'b': 1}), a reply of two documents, which
\* a Command refuses with ValueError, in the worker's reply as well as in
\* the reply that autoresponds itself sends to the head of the queue.
NextMutex ==
    \/ Run("t1")
    \/ \E c \in Conns : Accept(c)
    \/ AcceptExit
    \/ \E c \in Conns : ClientSend(c, DocPing)
    \/ ClientSendOp("c2", BadOpcode)
    \/ \E c \in Conns : LoopSteps(c)
    \/ AutorespondsCall("t1", ProtoPing, ReplyTwo)
    \/ QueueSteps("t1")
    \/ Return("t1")
    \/ StopEnter("t2")
    \/ StopBody("t2")
    \/ StopJoin("t2")
    \/ Return("t2")

SpecMutex == Init /\ [][NextMutex]_vars

\* The places where a thread is about to acquire the lock: the worker
\* before "with self._lock" and in _unlock's finally, a test thread before
\* a call and in stop's _unlock.
AtAcquire(x) ==
    IF x \in Conns THEN wpc[x] \in {"start", "relock", "relock_reset", "relock_bad"}
    ELSE pc[x] \in {"idle", "stop_join"}

\* The thread has finished: the worker has returned or died, the call of a
\* test thread has returned or raised.
Ended(x) ==
    IF x \in Conns THEN wpc[x] \in {"done", "crashed"} ELSE pc[x] \in {"ret", "idle"}

\* The step enters _unlock: the worker before its read, stop before its joins.
EntersUnlock(x) ==
    IF x \in Conns THEN wpc[x] = "while" /\ wpc'[x] = "recv"
    ELSE pc[x] = "stop_body" /\ pc'[x] = "stop_join"

\* C38: the lock is taken only when it is free, a thread about to acquire
\* it does not hold it, _unlock is entered by the thread that holds it, and
\* a worker or a call of autoresponds, run or stop that has returned or has
\* ended with an error, an error of a reply included, does not hold it.
C38_MutexDiscipline ==
    /\ [][\A x \in Conns \cup Threads :
              /\ (lock' = x /\ lock # x) => (lock = "free" /\ AtAcquire(x))
              /\ EntersUnlock(x) => (lock = x /\ lock' = "free")]_vars
    /\ [](\A x \in Conns \cup Threads :
              /\ AtAcquire(x) => lock # x
              /\ Ended(x) => lock # x)

\* A worker has died of the ValueError of its reply, autoresponds' own reply
\* to the head of the queue has failed and the call has ended with the
\* error, stop() has returned, and the lock is free.
C38_Witness ==
    /\ \E c \in Conns : wpc[c] = "crashed"
    /\ \E id \in Ids : dispatched[id] # <<>> /\ dispatched[id][1].how = "error"
    /\ pc["t1"] = "ret" /\ op["t1"] = "autoresponds" /\ result["t1"] = "error"
    /\ tmp["t1"] # NoItem
    /\ pc["t2"] = "ret" /\ result["t2"] = "stopped"
    /\ lock = "free"


\* Registration against a queue that is not empty: clients send foo and
\* ping commands, and one test thread registers autoresponds('ping'), asks
\* got('ping') and pops with receives().
NextHead ==
    \/ Run("t1")
    \/ \E c \in Conns : Accept(c)
    \/ \E c \in Conns, doc \in {DocFoo, DocPing} : ClientSend(c, doc)
    \/ \E c \in Conns : WorkerStart(c)
    \/ \E c \in Conns : WorkerRecv(c)
    \/ \E c \in Conns : WorkerDispatch(c)
    \/ Autoresponds("t1", ProtoPing, ReplyNone)
    \/ Got("t1", ProtoPing)
    \/ Receives("t1", ProtoAny)
    \/ Return("t1")

SpecHead == Init /\ [][NextHead]_vars

\* The step is a call of autoresponds: it registers a responder.
Registers == Len(autoresponders') = Len(autoresponders) + 1

\* The step is a call of receives by t.
Pops(t) == pc[t] = "idle" /\ pc'[t] = "ret" /\ op'[t] = "receives"

\* C39: autoresponds leaves the queue as it is or takes its head, which
\* then matches the new responder; a request in the queue gets a reply in
\* no step but the call of autoresponds that finds it at the head, not when
\* it becomes the head later; and receives hands out the head, so a request
\* behind a head that did not match is delivered in its place.
C39_HeadOnly ==
    [][/\ Registers =>
              \/ LogicalQueue' = LogicalQueue
              \/ /\ LogicalQueue # <<>>
                 /\ LogicalQueue' = Tail(LogicalQueue)
                 /\ Matches(autoresponders'[Len(autoresponders')].matcher,
                            Head(LogicalQueue))
       /\ \A k \in 1..Len(LogicalQueue) :
              replies'[LogicalQueue[k].id] # replies[LogicalQueue[k].id] =>
                  Registers /\ k = 1
       /\ \A t \in Threads : (Pops(t) /\ LogicalQueue # <<>>) =>
              /\ tmp'[t] = Head(LogicalQueue)
              /\ LogicalQueue' = Tail(LogicalQueue)
      ]_vars

\* receives has handed out a ping that was enqueued before the responder
\* for ping was registered, behind a foo that was the head at the
\* registration; the ping has no reply and was taken off the queue once.
C39_Witness ==
    /\ pc["t1"] = "ret" /\ op["t1"] = "receives"
    /\ tmp["t1"] # NoItem
    /\ tmp["t1"].docs = <<DocPing>>
    /\ Len(autoresponders) = 1
    /\ dispatched[tmp["t1"].id] # <<>>
    /\ dispatched[tmp["t1"].id][1].how = "queued"
    /\ dispatched[tmp["t1"].id][1].n = 0
    /\ regHead[1] # 0
    /\ regHead[1] < tmp["t1"].id
    /\ Req(regHead[1]).docs = <<DocFoo>>
    /\ replies[tmp["t1"].id] = <<>>
    /\ Len(removed[tmp["t1"].id]) = 1


\* Progress: a client on c1 that sends foo and ping commands and one on c2
\* that sends ping commands, a test thread that runs the server and
\* registers autoresponds('ping') and autoresponds('ping', {'a': 1},
\* {'b': 1}), and a second one that calls stop().
NextLive ==
    \/ Run("t1")
    \/ \E c \in Conns : Accept(c)
    \/ AcceptExit
    \/ ClientSend("c1", DocFoo)
    \/ \E c \in Conns : ClientSend(c, DocPing)
    \/ \E c \in Conns : LoopSteps(c)
    \/ \E c \in Conns : Collect(c)
    \/ \E spec \in {ReplyNone, ReplyTwo} : AutorespondsCall("t1", ProtoPing, spec)
    \/ QueueSteps("t1")
    \/ Return("t1")
    \/ StopEnter("t2")
    \/ StopBody("t2")
    \/ StopJoin("t2")
    \/ Return("t2")

SpecLive == Init /\ [][NextLive]_vars

\* Fair scheduling: every thread that can take a step takes one, and a
\* thread waiting for the lock gets it if the lock is free again and again;
\* a socket that nothing holds is collected.  The clients and the calls the
\* test threads begin are under no obligation.
LiveFairness ==
    /\ \A c \in Conns : /\ WF_vars(LoopSteps(c))
                        /\ SF_vars(LoopEnter(c))
                        /\ SF_vars(LoopRelock(c))
                        /\ WF_vars(Collect(c))
    /\ WF_vars(AcceptExit)
    /\ WF_vars(QueueSteps("t1"))
    /\ WF_vars(StopBody("t2"))
    /\ WF_vars(StopJoin("t2"))
    /\ \A t \in Threads : WF_vars(Return(t))

SpecLiveFair == SpecLive /\ LiveFairness

\* The message id, of a supported opcode, is on the wire of the open
\* connection c of a server that is not stopped.
Pending(id, c) ==
    /\ OnWire(id, c)
    /\ \A k \in 1..Len(wire[c]) :
           wire[c][k].id = id => ~IsCut(wire[c][k]) /\ wire[c][k].opcode \in OPCODES
    /\ sock[c] = "open"
    /\ ~stopped

\* The request was answered by a responder or put on the queue.
Served(id) ==
    /\ dispatched[id] # <<>>
    /\ dispatched[id][1].how \in {"auto", "queued"}

\* No worker waits for the lock forever.
NeverBlocked ==
    \A c \in Conns : AtAcquire(c) ~> ~AtAcquire(c)

\* C40: a complete message of a supported opcode on an open connection of a
\* server that is not stopped is in the end answered by a responder or
\* enqueued, unless the server is stopped or the connection closed before;
\* and no worker waits for the lock forever.
C40_Served ==
    /\ \A c \in Conns, id \in Ids :
           Pending(id, c) ~> (Served(id) \/ stopped \/ sock[c] # "open")
    /\ NeverBlocked

====
